---- MODULE Spec2Model ----
(***************************************************************************)
(* A model of cdvl-crawler.  The first part covers the resumable           *)
(* downloader                                                              *)
(* (src/src/cdvl_crawler/downloader.py): CDVLDownloader.download_file and  *)
(* its helpers _probe_range_support, _load_partial_metadata,               *)
(* _validate_partial_file and _save_partial_metadata, run against a        *)
(* nondeterministic HTTP server and an output directory.                   *)
(*                                                                         *)
(* Conventions.  An Optional[...] of the source is a sequence of length    *)
(* 0 (None) or 1.  A header value or other string the code parses is a     *)
(* sequence of one-character strings.  A path inside the output directory  *)
(* is the sequence of the pieces its name is built from, so that           *)
(* Path.with_suffix(suffix + ".partial") is an append.  Destination names  *)
(* are assumed to differ from the hidden ".cdvl_partial_<id>" names.  The  *)
(* HTTP session is open throughout a download_file call.  A behaviour is   *)
(* one download_file call started from any state of the directory.         *)
(*                                                                         *)
(* The last part covers the crawler (src/src/cdvl_crawler/crawler.py):     *)
(* CDVLCrawler.crawl after a successful login, with the two ID sweeps      *)
(* _crawl_videos and _crawl_datasets as interleaved tasks, their batches   *)
(* of fetches, and the two JSONL logs.                                     *)
(***************************************************************************)
EXTENDS Integers, Sequences, FiniteSets, TLC

VARIABLES
    fs,       \* the output directory: path -> file state
    pc,       \* position of download_file
    args,     \* parameters of the running download_file activation
    loc,      \* its local variables
    resp,     \* the response of the real GET
    result,   \* what the outermost download_file call returned (None while running)
    hist,     \* history of the outermost call (requests sent, ...)
    pin,      \* input of the pure function under check
    pout,     \* its output
    cpc,      \* position of CDVLCrawler.crawl
    cfg,      \* the crawler's configuration (self.config)
    jsonl,    \* the two output logs: content type -> lines
    sw,       \* the two sweeps: content type -> state of the sweep task
    cli       \* the command being run by main(): position, flags, history

dlVars == <<fs, pc, args, loc, resp, result, hist, pin, pout>>
crawlVars == <<cpc, cfg, jsonl, sw>>
vars == <<fs, pc, args, loc, resp, result, hist, pin, pout, cpc, cfg, jsonl, sw, cli>>

----------------------------------------------------------------------------
(* Bounds of the model *)

MaxPartial == 2    \* bytes in a partial file found at start
MaxBody == 2       \* bytes one response body streams
MaxTotal == 3      \* largest total size the server reports

\* download_file never looks at the bytes it copies: the server's bytes are
\* 0 and the bytes found on disk at the start are 1, which tells them apart
Bytes == {0}
StaleBytes == {1}

----------------------------------------------------------------------------
(* Optional values and strings *)

None == <<>>
Some(x) == <<x>>
IsSome(o) == o # <<>>
Val(o) == o[1]

Digits == <<"0", "1", "2", "3", "4", "5", "6", "7", "8", "9">>
IsDigit(c) == \E i \in 1..10 : Digits[i] = c
DigitVal(c) == (CHOOSE i \in 1..10 : Digits[i] = c) - 1
\* str(n) for a one-digit n
DigitStr(n) == <<Digits[n + 1]>>

RECURSIVE DigitsVal(_, _)
DigitsVal(s, acc) ==
    IF s = <<>> THEN acc ELSE DigitsVal(Tail(s), acc * 10 + DigitVal(Head(s)))

RECURSIVE LStrip(_)
LStrip(s) == IF s # <<>> /\ Head(s) = " " THEN LStrip(Tail(s)) ELSE s

RECURSIVE RStrip(_)
RStrip(s) ==
    IF s # <<>> /\ s[Len(s)] = " " THEN RStrip(SubSeq(s, 1, Len(s) - 1)) ELSE s

\* Python's int(s) on ASCII input without underscores: surrounding blanks
\* stripped, an optional sign, then one or more digits; None is ValueError.
ParseInt(s) ==
    LET t == RStrip(LStrip(s))
        signed == t # <<>> /\ Head(t) \in {"+", "-"}
        d == IF signed THEN Tail(t) ELSE t
    IN  IF d = <<>> \/ \E i \in 1..Len(d) : ~IsDigit(d[i])
        THEN None
        ELSE Some(IF signed /\ Head(t) = "-" THEN 0 - DigitsVal(d, 0)
                  ELSE DigitsVal(d, 0))

\* s.split("/")[-1]
LastSegment(s) ==
    LET cut == {i \in 1..Len(s) : s[i] = "/"}
        last == IF cut = {} THEN 0 ELSE CHOOSE i \in cut : \A j \in cut : j <= i
    IN  SubSeq(s, last + 1, Len(s))

HasSlash(s) == \E i \in 1..Len(s) : s[i] = "/"

----------------------------------------------------------------------------
(* _probe_range_support: the probe's outcome as a function of what the     *)
(* server did.  o.err is a transport error raised by the GET, o.read_err   *)
(* one raised while the one-byte body is read; content_range is the        *)
(* header's value ("" when absent), content_length an optional string.     *)

\* ContentRangeTotal without the test for a "/"
ContentRangeTotal_NoSlashTest(content_range) ==
    LET total_str == LastSegment(content_range)
    IN  IF total_str # <<"*">> THEN ParseInt(total_str) ELSE None

\* lines 82-90
ContentRangeTotal(content_range) ==
    IF HasSlash(content_range)
    THEN LET total_str == LastSegment(content_range)
         IN  IF total_str # <<"*">> THEN ParseInt(total_str) ELSE None
    ELSE None

ProbeRangeSupport(o) ==
    IF o.err THEN [supports_ranges |-> FALSE, content_length |-> None]
    ELSE IF o.status = 206
    THEN IF o.read_err
         THEN [supports_ranges |-> FALSE, content_length |-> None]
         ELSE [supports_ranges |-> TRUE,
               content_length |-> ContentRangeTotal(o.content_range)]
    ELSE IF o.status = 200
    THEN [supports_ranges |-> FALSE,
          content_length |->
              IF IsSome(o.content_length) /\ Val(o.content_length) # <<>>
              THEN ParseInt(Val(o.content_length))   \* ValueError: (False, None)
              ELSE None]
    ELSE [supports_ranges |-> FALSE, content_length |-> None]

----------------------------------------------------------------------------
(* The output directory *)

VideoIds == {1}          \* identifiers download_file is called with
SidecarIds == {1, 2}     \* identifiers a sidecar found on disk may carry

IdStr(v) == Digits[v + 1]  \* f"{video_id}", as one piece of a name

PartialById(v) == <<".cdvl_partial_", IdStr(v), ".tmp">>
MetaById(v) == <<".cdvl_partial_", IdStr(v), ".meta">>

\* final_path.with_suffix(final_path.suffix + s)
WithSuffix(p, s) == p \o <<s>>

Absent == [st |-> "absent", bytes |-> <<>>, video_id |-> None,
           content_length |-> None, filename |-> None]
Data(b) == [Absent EXCEPT !.st = "data", !.bytes = b]
\* what _save_partial_metadata writes (started_at is never read back)
Sidecar(v, l, n) == [st |-> "meta", bytes |-> <<>>, video_id |-> v,
                     content_length |-> l, filename |-> n]
\* a sidecar that json.loads rejects, and one it parses to a non-object
Unparsable == [Absent EXCEPT !.st = "unparsable"]
NonObject == [Absent EXCEPT !.st = "nonobject"]

Exists(f, p) == f[p].st # "absent"
Size(f, p) == Len(f[p].bytes)
Unlink(f, p) == [f EXCEPT ![p] = Absent]
UnlinkIfExists(f, op) ==
    IF IsSome(op) /\ Exists(f, Val(op)) THEN Unlink(f, Val(op)) ELSE f

\* The URL as url.split("/") sees it
DownloadUrl == <<"https:", "", "cdvl.org", "7", "file", "get">>
DownloadUrls == {DownloadUrl, <<"get", "">>}

RECURSIVE RStripSlash(_)
\* url.rstrip("/").split("/"), on the split form: trailing empty pieces go
RStripSlash(parts) ==
    IF Len(parts) > 1 /\ parts[Len(parts)] = ""
    THEN RStripSlash(SubSeq(parts, 1, Len(parts) - 1))
    ELSE parts

OutputPaths == {<<"out.bin">>}
ServerNames == {<<"server.bin">>}
\* the empty string, as a path or a name
EmptyName == <<>>

\* Content-Disposition of the GET response: without a filename parameter
\* (or absent), naming a file, or with a name that strips to the empty
\* string (filename=' gives "")
CDHeaders ==
    {[kind |-> "absent", name |-> None]}
    \cup {[kind |-> "filename", name |-> Some(n)] : n \in ServerNames \cup {EmptyName}}

ParseContentDisposition(h) == IF h.kind = "filename" THEN h.name ELSE None

UrlFallback(url) ==
    LET url_parts == RStripSlash(url)
    IN  IF Len(url_parts) >= 3
        THEN <<"cdvl_video_", url_parts[Len(url_parts) - 2], ".bin">>
        ELSE <<"cdvl_video_unknown.bin">>

IdFallback(v) == <<"cdvl_video_", IdStr(v), ".bin">>

\* "if x:" on an Optional[str]: None and the empty string are both false
Truthy(x) == IsSome(x) /\ Val(x) # EmptyName

\* FinalPath that prefers the server's name to the caller's path
FinalPath_ServerFirst(output_path, parsed_filename, video_id, url) ==
    IF Truthy(parsed_filename) THEN Val(parsed_filename)
    ELSE IF Truthy(output_path) THEN Val(output_path)
    ELSE IF IsSome(video_id) THEN IdFallback(Val(video_id))
    ELSE UrlFallback(url)

\* download_file, "Determine final filename"
FinalPath(output_path, parsed_filename, video_id, url) ==
    IF Truthy(output_path) THEN Val(output_path)
    ELSE IF Truthy(parsed_filename) THEN Val(parsed_filename)
    ELSE IF IsSome(video_id) THEN IdFallback(Val(video_id))
    ELSE UrlFallback(url)

FinalPaths ==
    OutputPaths \cup ServerNames \cup {IdFallback(v) : v \in VideoIds}
    \cup {UrlFallback(u) : u \in DownloadUrls}

AllPaths ==
    {PartialById(v) : v \in VideoIds} \cup {MetaById(v) : v \in VideoIds}
    \cup FinalPaths
    \cup {WithSuffix(p, ".partial") : p \in FinalPaths}
    \cup {WithSuffix(p, ".partial.meta") : p \in FinalPaths}

RECURSIVE SeqsUpTo(_, _)
SeqsUpTo(S, n) ==
    IF n = 0 THEN {<<>>}
    ELSE LET shorter == SeqsUpTo(S, n - 1)
         IN  shorter \cup {Append(s, x) : s \in shorter, x \in S}

----------------------------------------------------------------------------
(* _load_partial_metadata and _validate_partial_file *)

\* None when the sidecar is missing or json.loads fails; else what it parsed
LoadPartialMetadata(f, meta_path) ==
    IF ~Exists(f, meta_path) THEN None
    ELSE IF f[meta_path].st = "unparsable" THEN None
    ELSE Some(f[meta_path])

\* ValidatePartialFile with the size comparison off by one
ValidatePartialFile_SizeOffByOne(f, partial_path, meta_path, video_id, expected_length) ==
    LET no == [raised |-> FALSE, is_valid |-> FALSE, partial_size |-> 0, why |-> ""]
        partial_size == Size(f, partial_path)
        metadata == LoadPartialMetadata(f, meta_path)
    IN  IF ~Exists(f, partial_path) THEN [no EXCEPT !.why = "no_file"]
        ELSE IF partial_size = 0 THEN [no EXCEPT !.why = "empty"]
        ELSE IF metadata = None THEN [no EXCEPT !.why = "no_metadata"]
        ELSE IF Val(metadata).st = "nonobject" THEN [no EXCEPT !.raised = TRUE]
        ELSE IF Val(metadata).video_id # Some(video_id)
        THEN [no EXCEPT !.why = "id_mismatch"]
        ELSE IF IsSome(expected_length) /\ partial_size > Val(expected_length)
        THEN [no EXCEPT !.why = "size"]
        ELSE [raised |-> FALSE, is_valid |-> TRUE, partial_size |-> partial_size,
              why |-> ""]

\* raised: metadata.get on a value that is no dict (AttributeError);
\* why: which check failed (the debug messages of the source tell them apart)
ValidatePartialFile(f, partial_path, meta_path, video_id, expected_length) ==
    LET no == [raised |-> FALSE, is_valid |-> FALSE, partial_size |-> 0, why |-> ""]
        partial_size == Size(f, partial_path)
        metadata == LoadPartialMetadata(f, meta_path)
    IN  IF ~Exists(f, partial_path) THEN [no EXCEPT !.why = "no_file"]
        ELSE IF partial_size = 0 THEN [no EXCEPT !.why = "empty"]
        ELSE IF metadata = None THEN [no EXCEPT !.why = "no_metadata"]
        ELSE IF Val(metadata).st = "nonobject" THEN [no EXCEPT !.raised = TRUE]
        ELSE IF Val(metadata).video_id # Some(video_id)
        THEN [no EXCEPT !.why = "id_mismatch"]
        ELSE IF IsSome(expected_length) /\ partial_size >= Val(expected_length)
        THEN [no EXCEPT !.why = "size"]
        ELSE [raised |-> FALSE, is_valid |-> TRUE, partial_size |-> partial_size,
              why |-> ""]

----------------------------------------------------------------------------
(* What the server may do *)

ContentRangePrefix == <<"b", "y", "t", "e", "s", " ", "0", "-", "0">>
ContentRangeOf(total_str) == ContentRangePrefix \o <<"/">> \o total_str

\* Outcomes of the probe request during a download
ProbeOutcomes ==
    LET o == [err |-> FALSE, read_err |-> FALSE, status |-> 404,
              content_range |-> <<>>, content_length |-> None]
    IN  {[o EXCEPT !.err = TRUE], o, [o EXCEPT !.status = 416]}
        \cup {[o EXCEPT !.status = 206, !.read_err = TRUE]}
        \cup {[o EXCEPT !.status = 206, !.content_range = c] :
                c \in {<<>>, ContentRangePrefix, ContentRangeOf(<<"*">>)}
                      \cup {ContentRangeOf(DigitStr(t)) : t \in 1..MaxTotal}}
        \cup {[o EXCEPT !.status = 200, !.content_length = l] :
                l \in {None, Some(<<"x">>)}
                      \cup {Some(DigitStr(t)) : t \in 1..MaxTotal}}

\* Responses to the real GET.  A response that declares Content-Length n
\* delivers n bytes (left); one that declares none ends when it likes.
NoResponse == [status |-> 0, content_disposition |-> [kind |-> "absent", name |-> None],
               content_length |-> None, left |-> None]
Responses ==
    {[NoResponse EXCEPT !.status = st] : st \in {404, 416}}
    \cup {[status |-> st, content_disposition |-> cd, content_length |-> None,
           left |-> None] : st \in {200, 206}, cd \in CDHeaders}
    \cup {[status |-> st, content_disposition |-> cd,
           content_length |-> Some(DigitStr(n)), left |-> Some(n)] :
            st \in {200, 206}, cd \in CDHeaders, n \in 0..MaxBody}

----------------------------------------------------------------------------
(* The crawler's state *)

Sweeps == {"videos", "datasets"}

\* self.stats[...] at construction
NoStats == [success |-> 0, empty |-> 0, failed |-> 0]

\* The locals of _crawl_videos / _crawl_datasets.  tasks: the fetches of the
\* batch being gathered, each "created", "inflight" or its result;
\* semaphore: the free permits; processed: the index of the result loop.
\* last_id is the local of crawl that holds what the log gave.
\* History: start_id as passed in, requested: the IDs a GET was issued for,
\* in the order of issue, hits: the IDs whose fetch gave a record,
\* why: what stopped the sweep, ended: how many fetches ended in each way,
\* lines_before: the length of the sweep's log when the sweep began.
FetchEnds == {"record", "answered_empty", "network", "escaped"}

\* past: the IDs whose fetch gave no record in earlier runs on the same logs
NoSweep ==
    [pc |-> "off", last_id |-> 0, start_id |-> 0, current_id |-> 0,
     consecutive_failures |-> 0,
     batch_size |-> 0, tasks |-> <<>>, semaphore |-> 0, processed |-> 0,
     stats |-> NoStats, requested |-> <<>>, hits |-> {}, why |-> "",
     ended |-> [e \in FetchEnds |-> 0], lines_before |-> 0,
     past |-> {}]

NoConfig ==
    [max_concurrent_requests |-> 0, max_consecutive_failures |-> 0,
     start_id |-> [s \in Sweeps |-> 0], max_id |-> [s \in Sweeps |-> None]]

\* no crawl is running (the behaviour is one of the downloader's)
CrawlerOff ==
    /\ cpc = "off"
    /\ cfg = NoConfig
    /\ jsonl = [s \in Sweeps |-> <<>>]
    /\ sw = [s \in Sweeps |-> NoSweep]

\* main() is not running (the behaviour is one of a single component)
NoCli == [pc |-> "off"]

CliOff == cli = NoCli

----------------------------------------------------------------------------
(* download_file *)

NoLocals ==
    [supports_ranges |-> FALSE, expected_length |-> None,
     partial_by_id |-> None, meta_by_id |-> None, resume_from |-> 0,
     final_path |-> None, total_size |-> None,
     partial_path |-> None, meta_path |-> None,
     bytes_written |-> 0, final_size |-> None]

NoArgs == [url |-> <<>>, output_path |-> None, video_id |-> None,
           enable_resume |-> FALSE]

\* reqs: the HTTP requests of the outermost call, in order; depth: 416
\* restarts taken; raised: where an exception reached the handler;
\* before: the partial file's bytes as open() left them; received: the body
\* read so far; why: the check on which the partial file was found invalid
NoHistory ==
    [reqs |-> <<>>, depth |-> 0, probe_err |-> FALSE, raised |-> None,
     before |-> <<>>, received |-> <<>>, why |-> ""]

\* EntryPc that probes on every call
EntryPc_AlwaysProbe(a) == "probe"

\* lines 341-350: the probe runs only with resume enabled and an identifier
EntryPc(a) == IF a.enable_resume /\ IsSome(a.video_id) THEN "probe" ELSE "validate"

\* an exception raised by the code itself (not by an I/O operation)
Fail(where) ==
    /\ pc' = "done"
    /\ result' = Some(FALSE)
    /\ hist' = [hist EXCEPT !.raised = Some(where)]

\* The arguments download_file is called with; the URL matters only to the
\* last-resort name, so it varies only where that name is used
CallArgs ==
    {[url |-> DownloadUrl, output_path |-> o, video_id |-> v, enable_resume |-> e] :
        o \in {None} \cup {Some(x) : x \in OutputPaths \cup {EmptyName}},
        v \in {None} \cup {Some(i) : i \in VideoIds}, e \in BOOLEAN}
    \cup {[url |-> u, output_path |-> None, video_id |-> None, enable_resume |-> e] :
            u \in DownloadUrls, e \in BOOLEAN}

Init ==
    /\ \E p0 \in {Absent} \cup {Data(b) : b \in SeqsUpTo(StaleBytes, MaxPartial)},
          m0 \in {Absent, Unparsable, NonObject}
                 \cup {Sidecar(j, None, None) : j \in {None} \cup {Some(i) : i \in SidecarIds}},
          d0 \in {{}, FinalPaths} :
        fs = [p \in AllPaths |->
                IF p = PartialById(1) THEN p0
                ELSE IF p = MetaById(1) THEN m0
                ELSE IF p \in d0 THEN Data(<<1, 1, 1>>)
                ELSE Absent]
    /\ pc = "idle"
    /\ args = NoArgs
    /\ loc = NoLocals
    /\ resp = NoResponse
    /\ result = None
    /\ hist = NoHistory
    /\ pin = None
    /\ pout = None
    /\ CrawlerOff
    /\ CliOff

\* One call of download_file per behaviour, from any state of the directory
Call(a) ==
    /\ pc = "idle"
    /\ args' = a
    /\ loc' = NoLocals
    /\ resp' = NoResponse
    /\ result' = None
    /\ hist' = NoHistory
    /\ pc' = EntryPc(args')
    /\ UNCHANGED <<fs, pin, pout, cpc, cfg, jsonl, sw, cli>>

\* line 346
Probe(o) ==
    /\ pc = "probe"
    /\ LET r == ProbeRangeSupport(o)
       IN  loc' = [loc EXCEPT !.supports_ranges = r.supports_ranges,
                              !.expected_length = r.content_length]
    /\ hist' = [hist EXCEPT !.reqs = Append(@, [kind |-> "probe", range |-> Some(0)]),
                            !.probe_err = o.err \/ o.read_err]
    /\ pc' = "validate"
    /\ UNCHANGED <<fs, args, resp, result, pin, pout, cpc, cfg, jsonl, sw, cli>>

\* ResumeFrom that validates the partial file whatever the probe reported
ResumeFrom_Unprobed(f, a, l) ==
    IF a.enable_resume /\ IsSome(a.video_id)
    THEN LET r == ValidatePartialFile(f, PartialById(Val(a.video_id)),
                      MetaById(Val(a.video_id)), Val(a.video_id), l.expected_length)
         IN  [raised |-> r.raised,
              by_id |-> TRUE,
              why |-> r.why,
              resume_from |-> IF r.is_valid /\ r.partial_size > 0
                              THEN r.partial_size ELSE 0]
    ELSE [raised |-> FALSE, by_id |-> FALSE, why |-> "", resume_from |-> 0]

\* lines 359-383
ResumeFrom(f, a, l) ==
    IF a.enable_resume /\ IsSome(a.video_id) /\ l.supports_ranges
    THEN LET r == ValidatePartialFile(f, PartialById(Val(a.video_id)),
                      MetaById(Val(a.video_id)), Val(a.video_id), l.expected_length)
         IN  [raised |-> r.raised,
              by_id |-> TRUE,
              why |-> r.why,
              resume_from |-> IF r.is_valid /\ r.partial_size > 0
                              THEN r.partial_size ELSE 0]
    ELSE [raised |-> FALSE, by_id |-> FALSE, why |-> "", resume_from |-> 0]

Validate ==
    /\ pc = "validate"
    /\ LET r == ResumeFrom(fs, args, loc)
       IN  IF r.raised
           THEN Fail("validate") /\ UNCHANGED loc
           ELSE /\ loc' = [loc EXCEPT
                     !.partial_by_id = IF r.by_id THEN Some(PartialById(Val(args.video_id)))
                                       ELSE None,
                     !.meta_by_id = IF r.by_id THEN Some(MetaById(Val(args.video_id)))
                                    ELSE None,
                     !.resume_from = r.resume_from]
                /\ hist' = [hist EXCEPT !.why = r.why]
                /\ pc' = "get"
                /\ UNCHANGED result
    /\ UNCHANGED <<fs, args, resp, pin, pout, cpc, cfg, jsonl, sw, cli>>

\* lines 385-388: headers of the real GET
RangeHeader(resume_from) == IF resume_from > 0 THEN Some(resume_from) ELSE None

\* lines 397-399: the request goes out and a response arrives
SendGet(r) ==
    /\ pc = "get"
    /\ hist' = [hist EXCEPT
           !.reqs = Append(@, [kind |-> "get", range |-> RangeHeader(loc.resume_from)]),
           !.received = <<>>]
    /\ resp' = r
    /\ pc' = "status"
    /\ UNCHANGED <<fs, args, loc, result, pin, pout, cpc, cfg, jsonl, sw, cli>>

\* StatusDecision that keeps the stale offset when the server answers 200
StatusDecision_KeepOffset(resume_from, status) ==
    IF resume_from > 0
    THEN IF status = 206 \/ status = 200
         THEN [next |-> "resolve", resume_from |-> resume_from]
         ELSE IF status = 416 THEN [next |-> "del_partial", resume_from |-> 0]
         ELSE [next |-> "return_false", resume_from |-> resume_from]
    ELSE IF status # 200 THEN [next |-> "return_false", resume_from |-> resume_from]
    ELSE [next |-> "resolve", resume_from |-> resume_from]

\* StatusDecision that retries on 416 without deleting the stale files
StatusDecision_NoDelete(resume_from, status) ==
    IF resume_from > 0
    THEN IF status = 206 THEN [next |-> "resolve", resume_from |-> resume_from]
         ELSE IF status = 200 THEN [next |-> "resolve", resume_from |-> 0]
         ELSE IF status = 416 THEN [next |-> "retry", resume_from |-> 0]
         ELSE [next |-> "return_false", resume_from |-> resume_from]
    ELSE IF status # 200 THEN [next |-> "return_false", resume_from |-> resume_from]
    ELSE [next |-> "resolve", resume_from |-> resume_from]

\* StatusDecision that goes on with whatever answers a plain GET
StatusDecision_AcceptsAny(resume_from, status) ==
    IF resume_from > 0
    THEN IF status = 206 THEN [next |-> "resolve", resume_from |-> resume_from]
         ELSE IF status = 200 THEN [next |-> "resolve", resume_from |-> 0]
         ELSE IF status = 416 THEN [next |-> "del_partial", resume_from |-> 0]
         ELSE [next |-> "return_false", resume_from |-> resume_from]
    ELSE [next |-> "resolve", resume_from |-> resume_from]

\* lines 400-432: "next" is where download_file goes on
StatusDecision(resume_from, status) ==
    IF resume_from > 0
    THEN IF status = 206 THEN [next |-> "resolve", resume_from |-> resume_from]
         ELSE IF status = 200 THEN [next |-> "resolve", resume_from |-> 0]
         ELSE IF status = 416 THEN [next |-> "del_partial", resume_from |-> 0]
         ELSE [next |-> "return_false", resume_from |-> resume_from]
    ELSE IF status # 200 THEN [next |-> "return_false", resume_from |-> resume_from]
    ELSE [next |-> "resolve", resume_from |-> resume_from]

HandleStatus ==
    /\ pc = "status"
    /\ LET d == StatusDecision(loc.resume_from, resp.status)
       IN  /\ loc' = [loc EXCEPT !.resume_from = d.resume_from]
           /\ IF d.next = "return_false"
              THEN pc' = "done" /\ result' = Some(FALSE)
              ELSE pc' = d.next /\ UNCHANGED result
    /\ UNCHANGED <<fs, args, resp, hist, pin, pout, cpc, cfg, jsonl, sw, cli>>

\* lines 419-420
DeleteStalePartial ==
    /\ pc = "del_partial"
    /\ fs' = UnlinkIfExists(fs, loc.partial_by_id)
    /\ pc' = "del_meta"
    /\ UNCHANGED <<args, loc, resp, result, hist, pin, pout, cpc, cfg, jsonl, sw, cli>>

\* lines 421-422
DeleteStaleMeta ==
    /\ pc = "del_meta"
    /\ fs' = UnlinkIfExists(fs, loc.meta_by_id)
    /\ pc' = "retry"
    /\ UNCHANGED <<args, loc, resp, result, hist, pin, pout, cpc, cfg, jsonl, sw, cli>>

\* RetryArgs that leaves resume enabled
RetryArgs_ResumeStays(a) == a

\* lines 424-426: the arguments of the recursive call
RetryArgs(a) == [a EXCEPT !.enable_resume = FALSE]

\* The recursive call; its result is returned as it is, so the model goes
\* on in the same activation with the new arguments.
Retry ==
    /\ pc = "retry"
    /\ args' = RetryArgs(args)
    /\ loc' = NoLocals
    /\ resp' = NoResponse
    /\ hist' = [hist EXCEPT !.depth = @ + 1, !.before = <<>>, !.received = <<>>]
    /\ pc' = EntryPc(args')
    /\ UNCHANGED <<fs, result, pin, pout, cpc, cfg, jsonl, sw, cli>>

\* lines 466-475: None is ValueError from int()
ResponseLength(r) ==
    IF IsSome(r.content_length) /\ Val(r.content_length) # <<>>
    THEN ParseInt(Val(r.content_length))
    ELSE None

ResponseLengthRaises(r) ==
    IsSome(r.content_length) /\ Val(r.content_length) # <<>> /\ ResponseLength(r) = None

\* TotalSize that forgets the offset of a resumed download
TotalSize_NoOffset(expected_length, response_length, resume_from) ==
    IF expected_length = None /\ response_length # None
    THEN response_length
    ELSE expected_length

TotalSize(expected_length, response_length, resume_from) ==
    IF expected_length = None /\ response_length # None
    THEN Some(resume_from + Val(response_length))
    ELSE expected_length

\* lines 480-495
PartialPath(l, video_id, final_path) ==
    IF l.resume_from > 0 /\ IsSome(l.partial_by_id) THEN Val(l.partial_by_id)
    ELSE IF IsSome(video_id) THEN PartialById(Val(video_id))
    ELSE WithSuffix(final_path, ".partial")

MetaPath(l, video_id, final_path) ==
    IF l.resume_from > 0 /\ IsSome(l.partial_by_id) THEN Val(l.meta_by_id)
    ELSE IF IsSome(video_id) THEN MetaById(Val(video_id))
    ELSE WithSuffix(final_path, ".partial.meta")

\* lines 434-495
Resolve ==
    /\ pc = "resolve"
    /\ IF ResponseLengthRaises(resp)
       THEN Fail("resolve") /\ UNCHANGED loc
       ELSE LET final_path == FinalPath(args.output_path,
                                  ParseContentDisposition(resp.content_disposition),
                                  args.video_id, args.url)
            IN  /\ loc' = [loc EXCEPT
                      !.final_path = Some(final_path),
                      !.total_size = TotalSize(loc.expected_length,
                                         ResponseLength(resp), loc.resume_from),
                      !.partial_path = Some(PartialPath(loc, args.video_id, final_path)),
                      !.meta_path = Some(MetaPath(loc, args.video_id, final_path))]
                /\ pc' = "save_meta"
                /\ UNCHANGED <<result, hist>>
    /\ UNCHANGED <<fs, args, resp, pin, pout, cpc, cfg, jsonl, sw, cli>>

\* SavePartialMetadata that writes nothing
SavePartialMetadata_Skips(f, meta_path, video_id, content_length, filename) == f

\* lines 497-501 with _save_partial_metadata
SavePartialMetadata(f, meta_path, video_id, content_length, filename) ==
    [f EXCEPT ![meta_path] = Sidecar(Some(video_id), content_length, Some(filename))]

SaveMeta ==
    /\ pc = "save_meta"
    /\ fs' = IF IsSome(args.video_id) /\ IsSome(loc.meta_path)
             THEN SavePartialMetadata(fs, Val(loc.meta_path), Val(args.video_id),
                      loc.total_size, Val(loc.final_path))
             ELSE fs
    /\ pc' = "open"
    /\ UNCHANGED <<args, loc, resp, result, hist, pin, pout, cpc, cfg, jsonl, sw, cli>>

\* FileMode that always truncates
FileMode_AlwaysTruncate(resume_from) == "wb"

\* line 508
FileMode(resume_from) == IF resume_from > 0 THEN "ab" ELSE "wb"

\* open(partial_path, mode): "wb" truncates or creates, "ab" keeps or creates
OpenFile(f, p, mode) ==
    [f EXCEPT ![p] = IF mode = "ab" /\ Exists(f, p) THEN @ ELSE Data(<<>>)]

\* lines 504-510
OpenPartial ==
    /\ pc = "open"
    /\ fs' = OpenFile(fs, Val(loc.partial_path), FileMode(loc.resume_from))
    /\ loc' = [loc EXCEPT !.bytes_written = loc.resume_from]
    /\ hist' = [hist EXCEPT !.before = fs'[Val(loc.partial_path)].bytes]
    /\ pc' = "stream"
    /\ UNCHANGED <<args, resp, result, pin, pout, cpc, cfg, jsonl, sw, cli>>

\* f.write(chunk) on a file opened in either mode: the chunk goes at the end
WriteChunk(f, p, chunk) == [f EXCEPT ![p].bytes = @ \o chunk]

\* lines 520-524, one chunk of the body
StreamChunk(b) ==
    /\ pc = "stream"
    /\ IF IsSome(resp.left) THEN Val(resp.left) > 0 ELSE Len(hist.received) < MaxBody
    /\ fs' = WriteChunk(fs, Val(loc.partial_path), <<b>>)
    /\ loc' = [loc EXCEPT !.bytes_written = @ + 1]
    /\ hist' = [hist EXCEPT !.received = Append(@, b)]
    /\ resp' = [resp EXCEPT !.left = IF IsSome(@) THEN Some(Val(@) - 1) ELSE @]
    /\ UNCHANGED <<pc, args, result, pin, pout, cpc, cfg, jsonl, sw, cli>>

\* the body is exhausted and the with-blocks are left
StreamEnd ==
    /\ pc = "stream"
    /\ IsSome(resp.left) => Val(resp.left) = 0
    /\ pc' = "verify"
    /\ UNCHANGED <<fs, args, loc, resp, result, hist, pin, pout, cpc, cfg, jsonl, sw, cli>>

\* SizeCheckFails as a hard check
SizeCheckFails_Hard(total_size, final_size) ==
    IsSome(total_size) /\ final_size # Val(total_size)

\* lines 528-537: a size mismatch is logged as a warning, nothing more
SizeCheckFails(total_size, final_size) == FALSE

\* lines 526-537
Verify ==
    /\ pc = "verify"
    /\ LET final_size == Size(fs, Val(loc.partial_path))
       IN  /\ loc' = [loc EXCEPT !.final_size = Some(final_size)]
           /\ IF SizeCheckFails(loc.total_size, final_size)
              THEN pc' = "done" /\ result' = Some(FALSE)
              ELSE pc' = "unlink_final" /\ UNCHANGED result
    /\ UNCHANGED <<fs, args, resp, hist, pin, pout, cpc, cfg, jsonl, sw, cli>>

\* lines 540-541
UnlinkFinal ==
    /\ pc = "unlink_final"
    /\ fs' = UnlinkIfExists(fs, loc.final_path)
    /\ pc' = "rename"
    /\ UNCHANGED <<args, loc, resp, result, hist, pin, pout, cpc, cfg, jsonl, sw, cli>>

\* RenameFile that copies and leaves the source behind
RenameFile_Copies(f, from, to) == [f EXCEPT ![to] = f[from]]

\* partial_path.rename(final_path)
RenameFile(f, from, to) == [f EXCEPT ![to] = f[from], ![from] = Absent]

\* line 542
Rename ==
    /\ pc = "rename"
    /\ fs' = RenameFile(fs, Val(loc.partial_path), Val(loc.final_path))
    /\ pc' = "unlink_meta"
    /\ UNCHANGED <<args, loc, resp, result, hist, pin, pout, cpc, cfg, jsonl, sw, cli>>

\* lines 544-549
UnlinkMeta ==
    /\ pc = "unlink_meta"
    /\ fs' = UnlinkIfExists(fs, loc.meta_path)
    /\ pc' = "done"
    /\ result' = Some(TRUE)
    /\ UNCHANGED <<args, loc, resp, hist, pin, pout, cpc, cfg, jsonl, sw, cli>>

\* OnException that removes the partial file
OnException_CleansUp(f, l) == UnlinkIfExists(f, l.partial_path)

\* lines 551-556: the handler logs and returns False; the files stay
OnException(f, l) == f

\* Where a network or file operation inside the try block may raise
RaisePoints ==
    {"get", "del_partial", "del_meta", "save_meta", "open", "stream",
     "verify", "unlink_final", "rename", "unlink_meta"}

\* lines 551-556: the exception is logged and False returned; a GET that
\* raised had been sent
Raise ==
    /\ pc \in RaisePoints
    /\ pc' = "done"
    /\ result' = Some(FALSE)
    /\ hist' = [hist EXCEPT
           !.raised = Some(pc),
           !.reqs = IF pc = "get"
                    THEN Append(@, [kind |-> "get", range |-> RangeHeader(loc.resume_from)])
                    ELSE @]
    /\ fs' = OnException(fs, loc)
    /\ UNCHANGED <<args, loc, resp, pin, pout, cpc, cfg, jsonl, sw, cli>>

Next ==
    \/ \E a \in CallArgs : Call(a)
    \/ \E o \in ProbeOutcomes : Probe(o)
    \/ Validate
    \/ \E r \in Responses : SendGet(r)
    \/ HandleStatus
    \/ DeleteStalePartial
    \/ DeleteStaleMeta
    \/ Retry
    \/ Resolve
    \/ SaveMeta
    \/ OpenPartial
    \/ \E b \in Bytes : StreamChunk(b)
    \/ StreamEnd
    \/ Verify
    \/ UnlinkFinal
    \/ Rename
    \/ UnlinkMeta
    \/ Raise

Spec == Init /\ [][Next]_vars

----------------------------------------------------------------------------
(* Properties of the downloader *)

Requests == hist.reqs
LastRequest == Requests[Len(Requests)]
\* the request just answered was a real GET with a Range header
RangedGet ==
    /\ Requests # <<>>
    /\ LastRequest.kind = "get"
    /\ IsSome(LastRequest.range)

RequestedId == Val(args.video_id)
PartialOnDisk == fs[PartialById(RequestedId)]
SidecarOnDisk == fs[MetaById(RequestedId)]
Stale(n) == [k \in 1..n |-> 1]

\* The five conditions of the resume rule, read off the directory
ResumeConditions ==
    /\ PartialOnDisk.st = "data"
    /\ Len(PartialOnDisk.bytes) > 0
    /\ SidecarOnDisk.st = "meta"
    /\ SidecarOnDisk.video_id = Some(RequestedId)
    /\ (IsSome(loc.expected_length) =>
            Len(PartialOnDisk.bytes) < Val(loc.expected_length))

\* a resume-enabled attempt for an identifier has decided where to start
\* (nothing has touched the directory yet)
ResumeDecided ==
    /\ pc = "get"
    /\ hist.depth = 0
    /\ args.enable_resume
    /\ IsSome(args.video_id)

\* C1 as stated: a resume-enabled attempt for identifier i resumes from the
\* partial file's size n if and only if the file exists, n > 0, the sidecar
\* parses, its identifier is i and (T is unknown or n < T); otherwise it
\* starts from byte 0.
C1_ResumeIffFiveConditions ==
    ResumeDecided =>
        loc.resume_from = IF ResumeConditions THEN Len(PartialOnDisk.bytes) ELSE 0

\* C1 amended: the attempt resumes from n if and only if the probe of the same
\* call reported range support and the five conditions hold; otherwise it
\* starts from byte 0, sends no Range header and, once streaming, the partial
\* file holds only what this response delivered.
C1_ResumeIffProbedAndValid ==
    /\ ResumeDecided =>
          loc.resume_from = IF loc.supports_ranges /\ ResumeConditions
                            THEN Len(PartialOnDisk.bytes) ELSE 0
    /\ (pc = "status" /\ hist.depth = 0 /\ loc.resume_from = 0) =>
          LastRequest = [kind |-> "get", range |-> None]
    /\ (pc \in {"stream", "verify"} /\ loc.resume_from = 0) =>
          fs[Val(loc.partial_path)].bytes = hist.received

C1_Witness ==
    /\ ResumeDecided
    /\ loc.supports_ranges
    /\ ResumeConditions
    /\ IsSome(loc.expected_length)
    /\ loc.resume_from = Len(PartialOnDisk.bytes)

\* the request sent just before the last one
ProbeBeforeGet ==
    /\ Len(Requests) >= 2
    /\ Requests[Len(Requests) - 1].kind = "probe"

\* a resume-enabled call for an identifier whose probe reported no range
\* support (status 200, another status, or a transport error)
ProbedUnsupported ==
    /\ hist.depth = 0
    /\ args.enable_resume
    /\ IsSome(args.video_id)
    /\ ~loc.supports_ranges

\* C35: the real GET carries a Range header only when the probe of the same
\* call was answered (no transport error) with range support and the partial
\* file on disk passes validation, and the header names the file's size; when
\* the probe reported no range support, a valid partial file on disk is not
\* resumed: the GET carries no Range header and, once the file is open, the
\* partial file of the identifier holds exactly what this response delivered.
C35_RangeOnlyAfterProbe ==
    /\ (pc = "status" /\ RangedGet) =>
          /\ args.enable_resume
          /\ IsSome(args.video_id)
          /\ ProbeBeforeGet
          /\ ~hist.probe_err
          /\ loc.supports_ranges
          /\ ResumeConditions
          /\ LastRequest.range = Some(Len(PartialOnDisk.bytes))
    /\ (pc = "status" /\ ProbedUnsupported /\ ResumeConditions) =>
          LastRequest = [kind |-> "get", range |-> None]
    /\ (pc \in {"stream", "verify"} /\ ProbedUnsupported) =>
          /\ loc.partial_path = Some(PartialById(RequestedId))
          /\ PartialOnDisk.bytes = hist.received

\* a valid partial file is on disk, the probe was answered without range
\* support, and the GET went out without a Range header
C35_Witness ==
    /\ pc = "status"
    /\ ProbedUnsupported
    /\ ~hist.probe_err
    /\ ResumeConditions
    /\ LastRequest = [kind |-> "get", range |-> None]

\* the file every destination path holds when the directory starts with
\* files at the destination paths
OldFile == Data(<<1, 1, 1>>)

\* the call found a file at its destination: the other destination paths,
\* which no call touches, still hold theirs
DestinationPreExisted ==
    /\ IsSome(loc.final_path)
    /\ \E p \in FinalPaths \ {Val(loc.final_path)} : fs[p] = OldFile

\* C34: a call that returns failure leaves a pre-existing file at the
\* destination path unchanged, whatever the point of failure (the failure
\* between removing the old destination and renaming the partial file
\* included).
C34_FailureKeepsDestination ==
    (pc = "done" /\ result = Some(FALSE) /\ DestinationPreExisted) =>
        fs[Val(loc.final_path)] = OldFile

\* C2: after a Range request from a non-zero offset is answered 200, the
\* offset is 0, the partial file is still on disk (untouched) until it is
\* opened, and from then on it holds exactly the bytes this response has
\* delivered, never the stale bytes followed by them.
C2_RestartOn200 ==
    (RangedGet /\ resp.status = 200) =>
        /\ pc \in {"resolve", "save_meta", "open"} =>
              /\ PartialOnDisk.st = "data"
              /\ PartialOnDisk.bytes = Stale(Val(LastRequest.range))
        /\ pc \in {"resolve", "save_meta", "open", "stream", "verify"} =>
              loc.resume_from = 0
        /\ pc \in {"stream", "verify"} =>
              /\ Val(loc.partial_path) = PartialById(RequestedId)
              /\ PartialOnDisk.bytes = hist.received

C2_Witness ==
    /\ RangedGet
    /\ resp.status = 200
    /\ pc = "verify"
    /\ Len(hist.received) > 0

\* C3: once a resume attempt has been answered 416, no request is sent
\* before the partial file and its sidecar are both gone; the operation then
\* runs again with resume disabled, sending one GET without Range and no
\* probe; the call returns nothing before that retry returns.
C3_RestartAfter416 ==
    /\ pc \in {"del_partial", "del_meta", "retry"} =>
          /\ RangedGet /\ resp.status = 416
          /\ result = None
    /\ hist.depth >= 1 =>
          /\ ~args.enable_resume
          /\ loc.resume_from = 0
          /\ Requests[2].kind = "get" /\ IsSome(Requests[2].range)
          /\ pc \in {"validate", "get", "status", "resolve", "save_meta"} =>
                /\ ~Exists(fs, PartialById(RequestedId))
                /\ ~Exists(fs, MetaById(RequestedId))
          /\ Len(Requests) >= 3 => Requests[3] = [kind |-> "get", range |-> None]
          /\ pc # "done" => result = None

C3_Witness ==
    /\ hist.depth = 1
    /\ pc = "done"
    /\ result = Some(TRUE)
    /\ Len(Requests) = 3

\* C4: a download_file call takes the 416 restart at most once and sends at
\* most three requests: a probe, a GET with Range, and one GET without.
C4_AtMostThreeRequests ==
    /\ hist.depth <= 1
    /\ Len(Requests) <= 3
    /\ \A k \in 1..Len(Requests) :
          /\ Requests[k].kind = "probe" => k = 1
          /\ IsSome(Requests[k].range) => k <= 2
    /\ hist.depth = 1 => pc # "probe" /\ pc # "del_partial"

C4_Witness ==
    /\ Len(Requests) = 3
    /\ hist.depth = 1
    /\ pc = "done"
    /\ result = Some(FALSE)

\* an exception reaches the handler of download_file in this step
ExceptionStep == hist.raised = None /\ hist'.raised # None

\* C5 as stated: an exception during probing or streaming ends the attempt
\* with a failure result.
C5_AnyExceptionFails ==
    (pc = "done" /\ (hist.probe_err \/ hist.raised = Some("stream"))) =>
        result = Some(FALSE)

\* C5 amended: an exception of the real GET, of the streaming or of a file
\* operation ends the attempt with a failure result and leaves every file as
\* it is at that moment, so that after a failure while streaming for an
\* identifier the partial file (what open() left plus what was received) and
\* a sidecar carrying that identifier are on disk for a later call to resume
\* from; an exception during probing does not end the attempt: it counts as
\* no range support and unknown size, and the attempt goes on from byte 0.
C5_ExceptionKeepsFiles ==
    /\ [][ExceptionStep => (fs' = fs /\ pc' = "done" /\ result' = Some(FALSE))]_vars
    /\ [](hist.probe_err =>
            /\ ~loc.supports_ranges
            /\ loc.expected_length = None
            /\ loc.resume_from = 0)
    /\ []((pc = "done" /\ hist.raised = Some("stream") /\ IsSome(args.video_id)) =>
            /\ PartialOnDisk.st = "data"
            /\ PartialOnDisk.bytes = hist.before \o hist.received
            /\ SidecarOnDisk.st = "meta"
            /\ SidecarOnDisk.video_id = args.video_id)

C5_Witness ==
    /\ pc = "done"
    /\ hist.raised = Some("stream")
    /\ IsSome(args.video_id)
    /\ loc.resume_from > 0
    /\ Len(hist.received) > 0
    /\ result = Some(FALSE)

\* the destination holds what was streamed into the partial file, and the
\* partial file and the sidecar are gone
Finalized ==
    /\ fs[Val(loc.final_path)].st = "data"
    /\ fs[Val(loc.final_path)].bytes = hist.before \o hist.received
    /\ ~Exists(fs, Val(loc.partial_path))
    /\ ~Exists(fs, Val(loc.meta_path))
    /\ IsSome(args.video_id) =>
          /\ ~Exists(fs, PartialById(RequestedId))
          /\ ~Exists(fs, MetaById(RequestedId))

\* C6: whenever download_file returns success, the destination holds the file
\* that was streamed into the partial file, the partial file is gone under
\* its partial name and no sidecar of the identifier remains.
C6_SuccessMeansFinalized ==
    (pc = "done" /\ result = Some(TRUE)) => Finalized

\* a success that replaced a destination file found at the start
C6_Witness ==
    /\ pc = "done"
    /\ result = Some(TRUE)
    /\ Len(hist.received) > 0
    /\ \E q \in FinalPaths : q # Val(loc.final_path) /\ Exists(fs, q)

FoundInvalid == hist.why \in {"id_mismatch", "size"}

\* C7 as stated: when validation finds the partial file invalid because the
\* sidecar's identifier differs or the partial size is not below the expected
\* total, the sidecar is deleted.
C7_InvalidSidecarDeleted ==
    (FoundInvalid /\ pc = "get") => ~Exists(fs, MetaById(RequestedId))

\* C7 amended: in that case validation deletes nothing: the attempt starts
\* from byte 0 and the sidecar found stays on disk until the GET has been
\* accepted; it is then overwritten, before the partial file is opened, by a
\* fresh sidecar carrying the requested identifier, and a sidecar is absent
\* at the end exactly when the download succeeded.
C7_InvalidSidecarOverwritten ==
    FoundInvalid =>
        /\ loc.resume_from = 0
        /\ pc \in {"get", "status", "resolve", "save_meta"} =>
              /\ SidecarOnDisk.st = "meta"
              /\ SidecarOnDisk.filename = None
              /\ hist.why = "id_mismatch" => SidecarOnDisk.video_id # args.video_id
        /\ pc \in {"open", "stream", "verify", "unlink_final", "rename",
                   "unlink_meta"} =>
              SidecarOnDisk = Sidecar(args.video_id, loc.total_size, loc.final_path)
        /\ pc = "done" =>
              (Exists(fs, MetaById(RequestedId)) <=> result = Some(FALSE))

\* the GET was refused and the sidecar of another identifier is still there
C7_Witness ==
    /\ hist.why = "id_mismatch"
    /\ pc = "done"
    /\ result = Some(FALSE)
    /\ hist.raised = None
    /\ SidecarOnDisk.video_id = Some(2)

\* C8: a download whose stream ended and that raised no exception returns
\* success and is finalized, whether or not the size on disk equals the
\* expected total.
C8_SizeCheckIsSoft ==
    (pc = "done" /\ IsSome(loc.final_size) /\ hist.raised = None) =>
        /\ result = Some(TRUE)
        /\ Finalized

C8_Witness ==
    /\ pc = "done"
    /\ result = Some(TRUE)
    /\ IsSome(loc.total_size)
    /\ Val(loc.final_size) # Val(loc.total_size)

\* C9: after a resume from offset n is answered 206, the partial file holds
\* its first n bytes unchanged followed by the bytes received, so its size
\* is n plus the number of bytes received.
C9_AppendOn206 ==
    (RangedGet /\ resp.status = 206 /\ pc \in {"stream", "verify"}) =>
        LET n == Val(LastRequest.range)
        IN  /\ n > 0
            /\ PartialOnDisk.bytes = Stale(n) \o hist.received
            /\ Len(PartialOnDisk.bytes) = n + Len(hist.received)
            /\ loc.bytes_written = n + Len(hist.received)

C9_Witness ==
    /\ RangedGet
    /\ resp.status = 206
    /\ pc = "verify"
    /\ Len(hist.received) = MaxBody

\* the outermost call runs with resume disabled or without an identifier
NoResumeCall ==
    /\ pc # "idle"
    /\ hist.depth = 0
    /\ ~(args.enable_resume /\ IsSome(args.video_id))

\* C11: a probe is sent only by a call with resume requested and an
\* identifier; a call with resume disabled or without identifier sends
\* exactly one GET, without Range header and without probe, never takes the
\* 416 restart, and the partial file holds what that response delivered,
\* from byte 0.
C11_ProbeOnlyForResume ==
    /\ pc = "probe" => (args.enable_resume /\ IsSome(args.video_id))
    /\ (\E k \in 1..Len(Requests) : Requests[k].kind = "probe") =>
          /\ IsSome(args.video_id)
          /\ args.enable_resume \/ hist.depth = 1
    /\ NoResumeCall =>
          /\ pc \in {"validate", "get"} => Requests = <<>>
          /\ pc \notin {"validate", "get"} =>
                Requests = <<[kind |-> "get", range |-> None]>>
          /\ pc \notin {"probe", "del_partial", "del_meta", "retry"}
          /\ loc.resume_from = 0
          /\ pc \in {"stream", "verify"} =>
                fs[Val(loc.partial_path)].bytes = hist.received

\* resume disabled for an identifier whose partial file was on disk: one GET,
\* and the partial file holds the new body only
C11_Witness ==
    /\ NoResumeCall
    /\ IsSome(args.video_id)
    /\ pc = "verify"
    /\ Len(hist.received) = MaxBody
    /\ Val(loc.partial_path) = PartialById(RequestedId)
    /\ Len(Requests) = 1

\* the real GET has been answered with a status that is not accepted: not
\* 200, and not 206 or 416 in answer to a Range request
Refused ==
    /\ pc = "status"
    /\ resp.status # 200
    /\ ~(IsSome(LastRequest.range) /\ resp.status \in {206, 416})

\* C12: a refused status ends the call at once with a failure result, no
\* further request and no change to any file; no step of the call before that
\* decision touches a file, and nothing happens after the return.
C12_RefusedStatusFails ==
    /\ [][Refused => (/\ pc' = "done"
                      /\ result' = Some(FALSE)
                      /\ hist'.reqs = hist.reqs
                      /\ fs' = fs)]_vars
    /\ [][(pc \in {"idle", "probe", "validate", "get", "status"}) => (fs' = fs)]_vars
    /\ [][pc # "done"]_vars

\* a plain GET answered 206 has been refused, the stale partial file is there
C12_Witness ==
    /\ pc = "done"
    /\ result = Some(FALSE)
    /\ hist.raised = None
    /\ resp.status = 206
    /\ LastRequest = [kind |-> "get", range |-> None]
    /\ IsSome(args.video_id)
    /\ PartialOnDisk.st = "data"

\* C13: the destination is the caller's output path if one is given (a
\* non-empty string); otherwise the name parsed from Content-Disposition if
\* one parses (to a non-empty name); otherwise cdvl_video_<id>.bin if an
\* identifier is known; otherwise the name made from the URL path
\* (cdvl_video_<third segment from the end>.bin, or cdvl_video_unknown.bin
\* for a URL of fewer than three segments).
C13_FilenamePriority ==
    IsSome(loc.final_path) =>
        LET final == Val(loc.final_path)
            given == IsSome(args.output_path) /\ Len(Val(args.output_path)) > 0
            cd == resp.content_disposition
            served == cd.kind = "filename" /\ Len(Val(cd.name)) > 0
            known == IsSome(args.video_id)
        IN  /\ given => final = Val(args.output_path)
            /\ (~given /\ served) => final = Val(cd.name)
            /\ (~given /\ ~served /\ known) => final = <<"cdvl_video_", "1", ".bin">>
            /\ (~given /\ ~served /\ ~known /\ args.url = DownloadUrl) =>
                  final = <<"cdvl_video_", "7", ".bin">>
            /\ (~given /\ ~served /\ ~known /\ args.url # DownloadUrl) =>
                  final = <<"cdvl_video_unknown.bin">>

\* every source is there and the caller's path wins
C13_Witness ==
    /\ pc = "done"
    /\ result = Some(TRUE)
    /\ args.output_path = Some(<<"out.bin">>)
    /\ resp.content_disposition.name = Some(<<"server.bin">>)
    /\ IsSome(args.video_id)
    /\ fs[<<"out.bin">>].bytes = hist.received
    /\ Len(hist.received) > 0

\* the best-known total size of the attempt: the probed total if known,
\* otherwise the offset plus the Content-Length of the response (the bytes
\* received so far and those still to come), otherwise unknown
BestKnownTotal ==
    IF IsSome(loc.expected_length) THEN loc.expected_length
    ELSE IF IsSome(resp.left)
    THEN Some(loc.resume_from + Len(hist.received) + Val(resp.left))
    ELSE None

\* C14 as stated: in every attempt that reaches streaming, the sidecar with
\* the identifier and the best-known total size is on disk before the first
\* chunk is written.
C14_SidecarBeforeFirstChunk ==
    pc \in {"open", "stream"} =>
        /\ fs[Val(loc.meta_path)].st = "meta"
        /\ fs[Val(loc.meta_path)].video_id = args.video_id
        /\ fs[Val(loc.meta_path)].content_length = BestKnownTotal

\* C14 amended: in every attempt for a known identifier that reaches
\* streaming, the sidecar with the identifier, the best-known total size and
\* the destination's name is on disk before the partial file is opened and
\* the first chunk written; an attempt without identifier writes no sidecar.
C14_SidecarBeforeFirstChunkForId ==
    pc \in {"open", "stream"} =>
        IF IsSome(args.video_id)
        THEN /\ Val(loc.meta_path) = MetaById(RequestedId)
             /\ SidecarOnDisk = Sidecar(args.video_id, BestKnownTotal, loc.final_path)
        ELSE ~Exists(fs, Val(loc.meta_path))

\* a resumed attempt whose probe gave no total: offset plus Content-Length
C14_Witness ==
    /\ pc = "stream"
    /\ hist.received = <<>>
    /\ IsSome(args.video_id)
    /\ loc.resume_from > 0
    /\ loc.expected_length = None
    /\ resp.left = Some(MaxBody)
    /\ SidecarOnDisk.content_length = Some(loc.resume_from + MaxBody)

----------------------------------------------------------------------------
(* The probe as a function: every server outcome against the result the    *)
(* documentation of _probe_range_support gives for it                      *)

\* Content-Range values of a 206 answer, each with the total it stands for
ContentRangeCases ==
    { [header |-> <<"b", "y", "t", "e", "s", " ", "0", "-", "0", "/", "5", "0", "0", "0", "0", "0", "0">>, want |-> Some(5000000)],
      [header |-> <<"b", "y", "t", "e", "s", " ", "0", "-", "0", "/", "3">>, want |-> Some(3)],
      [header |-> <<"b", "y", "t", "e", "s", " ", "0", "-", "0", "/", "*">>, want |-> None],
      [header |-> <<"b", "y", "t", "e", "s", " ", "0", "-", "0", "/", "a", "b", "c">>, want |-> None],
      [header |-> <<"b", "y", "t", "e", "s", " ", "0", "-", "0">>, want |-> None],
      [header |-> <<>>, want |-> None],
      [header |-> <<"b", "y", "t", "e", "s", " ", "0", "-", "0", "/">>, want |-> None],
      [header |-> <<"b", "y", "t", "e", "s", " ", "0", "-", "0", "/", " ", "1", "2", " ">>, want |-> Some(12)],
      [header |-> <<"b", "y", "t", "e", "s", " ", "0", "/", "0", "/", "7">>, want |-> Some(7)],
      [header |-> <<"4", "2">>, want |-> None],
      [header |-> <<"b", "y", "t", "e", "s", " ", "0", "-", "0", "/", "-", "1">>, want |-> Some(0 - 1)] }

\* Content-Length values of a 200 answer, each with the size hint it stands for
ContentLengthCases ==
    { [header |-> None, want |-> None],
      [header |-> Some(<<>>), want |-> None],
      [header |-> Some(<<"1", "2", "3", "4">>), want |-> Some(1234)],
      [header |-> Some(<<"0">>), want |-> Some(0)],
      [header |-> Some(<<"x">>), want |-> None] }

ProbeStatuses == {200, 204, 206, 301, 404, 416, 500}

ProbeInputs ==
    {[err |-> e[1], read_err |-> e[2], status |-> st,
      content_range |-> r.header, want_total |-> r.want,
      content_length |-> l.header, want_length |-> l.want] :
        e \in {<<FALSE, FALSE>>, <<TRUE, FALSE>>, <<FALSE, TRUE>>},
        st \in ProbeStatuses, r \in ContentRangeCases, l \in ContentLengthCases}

InitProbe ==
    /\ fs = [p \in AllPaths |-> Absent]
    /\ pc = "pure"
    /\ args = NoArgs
    /\ loc = NoLocals
    /\ resp = NoResponse
    /\ result = None
    /\ hist = NoHistory
    /\ pin \in {Some(i) : i \in ProbeInputs}
    /\ pout = None
    /\ CrawlerOff
    /\ CliOff

ApplyProbe ==
    /\ pc = "pure"
    /\ pout = None
    /\ pout' = Some(ProbeRangeSupport(Val(pin)))
    /\ UNCHANGED <<fs, pc, args, loc, resp, result, hist, pin, cpc, cfg, jsonl, sw, cli>>

NextProbe == ApplyProbe

SpecProbe == InitProbe /\ [][NextProbe]_vars

ProbeAnswer(supports, length) ==
    [supports_ranges |-> supports, content_length |-> length]

\* C10: the probe gives (true, the total after "/" of Content-Range, unknown
\* for "*", an unparsable value or no "/") on 206, (false, the Content-Length
\* hint or unknown) on 200, and (false, unknown) on any other status or any
\* transport error; 206 with "bytes 0-0/5000000" gives (true, 5000000).
C10_ProbeMapping ==
    IsSome(pout) =>
        LET o == Val(pin)
            r == Val(pout)
        IN  /\ (o.err \/ (o.status = 206 /\ o.read_err)) => r = ProbeAnswer(FALSE, None)
            /\ (~o.err /\ ~o.read_err /\ o.status = 206) =>
                  r = ProbeAnswer(TRUE, o.want_total)
            /\ (~o.err /\ o.status = 200) => r = ProbeAnswer(FALSE, o.want_length)
            /\ o.status \notin {200, 206} => r = ProbeAnswer(FALSE, None)
            /\ (~o.err /\ ~o.read_err /\ o.status = 206
                /\ o.content_range = ContentRangeOf(<<"5", "0", "0", "0", "0", "0", "0">>)) =>
                  r = ProbeAnswer(TRUE, Some(5000000))

C10_Witness ==
    /\ IsSome(pout)
    /\ Val(pin).status = 206
    /\ Val(pin).content_range = ContentRangeOf(<<"5", "0", "0", "0", "0", "0", "0">>)
    /\ Val(pout) = ProbeAnswer(TRUE, Some(5000000))

----------------------------------------------------------------------------
(* The crawler: crawl, _crawl_videos and _crawl_datasets.  The two sweeps   *)
(* are the same code up to the content type, so one set of actions takes   *)
(* the sweep as a parameter.                                               *)

MaxWidth == 2      \* widest max_concurrent_requests
MaxFailures == 2   \* largest max_consecutive_failures
MaxId == 5         \* highest ID the model lets a sweep request
MaxYield == 2      \* highest ID with a record, where only finitely many have one

\* max(a, b) and min(a, b) of Python
Max2(a, b) == IF a >= b THEN a ELSE b
Min2(a, b) == IF a <= b THEN a ELSE b

\* A line of a log: a record with its id, or a line json.loads rejects (a
\* line cut short by an interrupted write)
Record(id) == [kind |-> "record", id |-> id]
Garbled == [kind |-> "garbled", id |-> 0]
\* Other lines a reader may meet: an empty line; a line that is JSON but no
\* object (42, null); a line whose bytes are no UTF-8 (a write cut inside a
\* character, the log being written with ensure_ascii=False)
Blank == [kind |-> "blank", id |-> 0]
NotAnObject == [kind |-> "scalar", id |-> 0]
Undecodable == [kind |-> "undecodable", id |-> 0]

RECURSIVE ScanLastId(_, _)
\* lines 212-220: the loop over the lines of the file
ScanLastId(lines, last_id) ==
    IF lines = <<>> THEN last_id
    ELSE LET line == Head(lines)
         IN  ScanLastId(Tail(lines),
                 IF line.kind = "record" THEN Max2(last_id, line.id) ELSE last_id)

\* GetLastIdFromJsonl that reads the first line only
GetLastIdFromJsonl_FirstLine(lines) == IF lines = <<>> THEN 0 ELSE Head(lines).id

\* lines 213-217: what leaves the loop for the outer handler: the
\* UnicodeDecodeError of the read, the TypeError of '"id" in data' on a
\* number or null
ScanRaises(lines) ==
    \E k \in 1..Len(lines) : lines[k].kind \in {"scalar", "undecodable"}

\* _get_last_id_from_jsonl; the file exists, crawl has touched it; lines
\* 223-225: any exception gives 0
GetLastIdFromJsonl(lines) == IF ScanRaises(lines) THEN 0 ELSE ScanLastId(lines, 0)

\* _append_to_jsonl: an error of open() or write() is logged and swallowed
AppendToJsonl(lines, data, ok) == IF ok THEN Append(lines, data) ELSE lines

\* StartId that takes the configured start whatever the log holds
StartId_Configured(last_id, configured) == configured

\* StartId that begins at the last recorded ID itself
StartId_AtLast(last_id, configured) == Max2(last_id, configured)

\* crawl, lines 486-491
StartId(last_id, configured) == Max2(last_id + 1, configured)

\* BatchSize that ignores the ceiling
BatchSize_NotNarrowed(max_concurrent, current_id, max_id) == max_concurrent

\* lines 332-339, for a current_id that is not above the ceiling
BatchSize(max_concurrent, current_id, max_id) ==
    IF IsSome(max_id)
    THEN Min2(max_concurrent, Val(max_id) - current_id + 1)
    ELSE max_concurrent

\* NextId that leaves one ID out between two batches
NextId_Skipping(current_id, batch_size) == current_id + batch_size + 1

\* NextId that steps back onto the last ID of the batch
NextId_Overlapping(current_id, batch_size) == current_id + batch_size - 1

\* line 373
NextId(current_id, batch_size) == current_id + batch_size

\* What a fetch may meet: a page with content; a page _parse_content gives
\* None for (no content container, fewer than ten characters of text, the
\* markers of the site's error page, not one paragraph); a status other than
\* 200; a timeout; another error of the request; or something that is no
\* Exception (the task is cancelled)
FetchOutcomes ==
    {"page", "no_content", "short_content", "error_page", "no_paragraphs",
     "http_error", "timeout", "client_error", "cancelled"}

\* lines 262-267: the two except clauses of a fetch, for the outcomes that
\* are exceptions of the request itself
NetworkErrors == {"timeout", "client_error"}

\* how a fetch ended: with a record, without one although the server
\* answered, with an exception of the request, or with something that left
\* the coroutine
FetchEnd(o) ==
    IF o = "page" THEN "record"
    ELSE IF o \in NetworkErrors THEN "network"
    ELSE IF o = "cancelled" THEN "escaped"
    ELSE "answered_empty"

\* _fetch_video / _fetch_dataset as gather(return_exceptions=True) hands
\* the result back: a dict, None, or the exception that escaped
FetchResult(o) ==
    IF o = "page" THEN "dict"
    ELSE IF o = "cancelled" THEN "exception"
    ELSE "none"

TaskResults == {"dict", "none", "exception"}

\* asyncio.gather returns when every task of the batch has finished
GatherReturned(tasks) == \A k \in 1..Len(tasks) : tasks[k] \in TaskResults

\* ThresholdReached that lets the counter pass the threshold by one
ThresholdReached_Late(consecutive_failures, max_failures) ==
    consecutive_failures > max_failures

\* line 325: the test at the top of the while loop
ThresholdReached(consecutive_failures, max_failures) ==
    consecutive_failures >= max_failures

\* crawl, lines 472-508, after the login succeeded: the logs are touched,
\* the last IDs read, the start IDs fixed and both sweeps launched, each
\* with a semaphore of its own
StartCrawlers ==
    /\ cpc = "start"
    /\ sw' = [s \in Sweeps |->
                LET last_id == GetLastIdFromJsonl(jsonl[s])
                    start == StartId(last_id, cfg.start_id[s])
                IN  [NoSweep EXCEPT !.pc = "loop",
                                    !.past = sw[s].past,
                                    !.lines_before = Len(jsonl[s]),
                                    !.last_id = last_id,
                                    !.start_id = start,
                                    !.current_id = start,
                                    !.semaphore = cfg.max_concurrent_requests]]
    /\ cpc' = "sweeping"
    /\ UNCHANGED <<cfg, jsonl>>
    /\ UNCHANGED <<dlVars, cli>>

\* lines 323-344: the top of the while loop, up to the creation of the
\* batch's tasks
CheckLimits(s) ==
    /\ cpc = "sweeping"
    /\ sw[s].pc = "loop"
    /\ LET t == sw[s]
           max_id == cfg.max_id[s]
           batch_size == BatchSize(cfg.max_concurrent_requests, t.current_id, max_id)
       IN  IF ThresholdReached(t.consecutive_failures, cfg.max_consecutive_failures)
           THEN sw' = [sw EXCEPT ![s].pc = "stopped", ![s].why = "threshold"]
           ELSE IF IsSome(max_id) /\ t.current_id > Val(max_id)
           THEN sw' = [sw EXCEPT ![s].pc = "stopped", ![s].why = "ceiling"]
           ELSE /\ t.current_id + batch_size - 1 <= MaxId
                /\ sw' = [sw EXCEPT ![s].pc = "gather",
                                    ![s].batch_size = batch_size,
                                    ![s].tasks = [k \in 1..batch_size |-> "created"],
                                    ![s].processed = 0]
    /\ UNCHANGED <<cpc, cfg, jsonl>>
    /\ UNCHANGED <<dlVars, cli>>

\* lines 318-320: the tasks run in the order of their creation; each takes
\* a permit and issues its GET
StartFetch(s) ==
    /\ cpc = "sweeping"
    /\ sw[s].pc = "gather"
    /\ sw[s].semaphore > 0
    /\ \E k \in 1..Len(sw[s].tasks) :
          /\ sw[s].tasks[k] = "created"
          /\ \A j \in 1..(k - 1) : sw[s].tasks[j] # "created"
          /\ sw' = [sw EXCEPT ![s].tasks[k] = "inflight",
                              ![s].semaphore = @ - 1,
                              ![s].requested = Append(@, sw[s].current_id + k - 1)]
    /\ UNCHANGED <<cpc, cfg, jsonl>>
    /\ UNCHANGED <<dlVars, cli>>

\* a fetch ends, in any order, and gives its permit back
FinishFetch(s, k, o) ==
    /\ cpc = "sweeping"
    /\ sw[s].pc = "gather"
    /\ k \in 1..Len(sw[s].tasks)
    /\ sw[s].tasks[k] = "inflight"
    /\ sw' = [sw EXCEPT ![s].tasks[k] = FetchResult(o),
                        ![s].semaphore = @ + 1,
                        ![s].ended[FetchEnd(o)] = @ + 1]
    /\ UNCHANGED <<cpc, cfg, jsonl>>
    /\ UNCHANGED <<dlVars, cli>>

\* lines 348-363: one round of the loop over the results
ProcessResult(s, ok) ==
    /\ cpc = "sweeping"
    /\ sw[s].pc = "gather"
    /\ GatherReturned(sw[s].tasks)
    /\ sw[s].processed < sw[s].batch_size
    /\ LET t == sw[s]
           r == t.tasks[t.processed + 1]
           id == t.current_id + t.processed
       IN  IF r = "exception"
           THEN /\ sw' = [sw EXCEPT ![s].stats.failed = @ + 1,
                                    ![s].consecutive_failures = @ + 1,
                                    ![s].processed = @ + 1]
                /\ UNCHANGED jsonl
           ELSE IF r = "none"
           THEN /\ sw' = [sw EXCEPT ![s].stats.empty = @ + 1,
                                    ![s].consecutive_failures = @ + 1,
                                    ![s].processed = @ + 1]
                /\ UNCHANGED jsonl
           ELSE IF r = "dict"
           THEN /\ jsonl' = [jsonl EXCEPT ![s] = AppendToJsonl(@, Record(id), ok)]
                /\ sw' = [sw EXCEPT ![s].stats.success = @ + 1,
                                    ![s].consecutive_failures = 0,
                                    ![s].processed = @ + 1,
                                    ![s].hits = @ \cup {id}]
           ELSE /\ sw' = [sw EXCEPT ![s].stats.failed = @ + 1,
                                    ![s].consecutive_failures = @ + 1,
                                    ![s].processed = @ + 1]
                /\ UNCHANGED jsonl
    /\ UNCHANGED <<cpc, cfg>>
    /\ UNCHANGED <<dlVars, cli>>

\* lines 373-376: the cursor moves on and the task sleeps
EndBatch(s) ==
    /\ cpc = "sweeping"
    /\ sw[s].pc = "gather"
    /\ GatherReturned(sw[s].tasks)
    /\ sw[s].processed = sw[s].batch_size
    /\ sw' = [sw EXCEPT ![s].current_id = NextId(@, sw[s].batch_size),
                        ![s].pc = "loop"]
    /\ UNCHANGED <<cpc, cfg, jsonl>>
    /\ UNCHANGED <<dlVars, cli>>

\* FinishCrawl that goes on as soon as one sweep has returned
FinishCrawl_FirstReturns ==
    /\ cpc = "sweeping"
    /\ \E s \in Sweeps : sw[s].pc = "stopped"
    /\ cpc' = "complete"
    /\ UNCHANGED <<cfg, jsonl, sw>>
    /\ UNCHANGED <<dlVars, cli>>

\* lines 505-525: gather returns when both sweeps have returned
FinishCrawl ==
    /\ cpc = "sweeping"
    /\ \A s \in Sweeps : sw[s].pc = "stopped"
    /\ cpc' = "complete"
    /\ UNCHANGED <<cfg, jsonl, sw>>
    /\ UNCHANGED <<dlVars, cli>>

NextCrawl ==
    \/ StartCrawlers
    \/ \E s \in Sweeps : CheckLimits(s)
    \/ \E s \in Sweeps : StartFetch(s)
    \/ \E s \in Sweeps, k \in 1..MaxWidth, o \in FetchOutcomes : FinishFetch(s, k, o)
    \/ \E s \in Sweeps, ok \in BOOLEAN : ProcessResult(s, ok)
    \/ \E s \in Sweeps : EndBatch(s)
    \/ FinishCrawl

\* no download is running (the behaviour is one of the crawler's)
DownloaderOff ==
    /\ fs = [p \in AllPaths |-> Absent]
    /\ pc = "crawl"
    /\ args = NoArgs
    /\ loc = NoLocals
    /\ resp = NoResponse
    /\ result = None
    /\ hist = NoHistory
    /\ pin = None
    /\ pout = None

\* The logs a crawl may find: what earlier runs of the crawler left
InitialLogs ==
    {<<>>, <<Record(1)>>, <<Record(1), Record(2)>>, <<Record(2), Garbled>>}

\* configured start IDs and ceilings
StartChoices == {0, 1, 3}
Ceilings == {None} \cup {Some(m) : m \in {0, MaxId - 2, MaxId - 1}}

\* A crawl whose dataset sweep is held at its ceiling (max_dataset_id = 0),
\* so that the video sweep is seen alone, under every configuration
InitSweep ==
    /\ DownloaderOff
    /\ CliOff
    /\ cpc = "start"
    /\ \E w \in 1..MaxWidth, k \in (-1)..MaxFailures, st \in StartChoices, m \in Ceilings :
          cfg = [max_concurrent_requests |-> w, max_consecutive_failures |-> k,
                 start_id |-> [s \in Sweeps |-> IF s = "videos" THEN st ELSE 1],
                 max_id |-> [s \in Sweeps |-> IF s = "videos" THEN m ELSE Some(0)]]
    /\ \E l \in InitialLogs :
          jsonl = [s \in Sweeps |-> IF s = "videos" THEN l ELSE <<>>]
    /\ sw = [s \in Sweeps |-> NoSweep]

SpecSweep == InitSweep /\ [][NextCrawl]_vars

\* Only finitely many IDs yield a record: a fetch ends with a page that has
\* content only for an ID up to MaxYield
YieldsWithin(s, k, o) == (o = "page") => (sw[s].current_id + k - 1 <= MaxYield)

NextFinite ==
    \/ StartCrawlers
    \/ \E s \in Sweeps : CheckLimits(s)
    \/ \E s \in Sweeps : StartFetch(s)
    \/ \E s \in Sweeps, k \in 1..MaxWidth, o \in FetchOutcomes :
          YieldsWithin(s, k, o) /\ FinishFetch(s, k, o)
    \/ \E s \in Sweeps, ok \in BOOLEAN : ProcessResult(s, ok)
    \/ \E s \in Sweeps : EndBatch(s)
    \/ FinishCrawl

\* the configurations whose sweep ends below the highest ID of the model:
\* with threshold k and width w, nothing is requested beyond k + w - 1 IDs
\* above the start or the last record
WithinModel ==
    LET start == StartId(GetLastIdFromJsonl(jsonl["videos"]), cfg.start_id["videos"])
    IN  Max2(start - 1, MaxYield) + cfg.max_consecutive_failures
            + cfg.max_concurrent_requests - 1 <= MaxId

InitFinite == InitSweep /\ WithinModel

\* The event loop runs every task that is ready, and every request ends
\* (with a response, an error or the session's timeout): a step that is
\* possible is taken
SpecSweepFair == InitFinite /\ [][NextFinite]_vars /\ WF_vars(NextFinite)

\* The command is run again on the same output directory, after a run that
\* ended (threshold or ceiling) or that was interrupted while its sweeps
\* were between two batches; the new process starts with fresh counters
Restart ==
    /\ cpc \in {"sweeping", "complete"}
    /\ \A s \in Sweeps : sw[s].pc \in {"loop", "stopped"}
    /\ cpc' = "start"
    /\ sw' = [s \in Sweeps |->
                [NoSweep EXCEPT !.past =
                    sw[s].past \cup ({sw[s].requested[k] : k \in 1..Len(sw[s].requested)}
                                        \ sw[s].hits)]]
    /\ UNCHANGED <<cfg, jsonl>>
    /\ UNCHANGED <<dlVars, cli>>

NextRuns == NextCrawl \/ Restart

\* Runs of the crawler, one after the other, on logs that start empty: the
\* video sweep under every width and threshold, up to a low ceiling, the
\* dataset sweep held at its ceiling
InitRuns ==
    /\ DownloaderOff
    /\ CliOff
    /\ cpc = "start"
    /\ \E w \in 1..MaxWidth, k \in 1..MaxFailures, m \in {Some(2), Some(3)} :
          cfg = [max_concurrent_requests |-> w, max_consecutive_failures |-> k,
                 start_id |-> [s \in Sweeps |-> 1],
                 max_id |-> [s \in Sweeps |-> IF s = "videos" THEN m ELSE Some(0)]]
    /\ jsonl = [s \in Sweeps |-> <<>>]
    /\ sw = [s \in Sweeps |-> NoSweep]

SpecRuns == InitRuns /\ [][NextRuns]_vars

\* A crawl with both sweeps at work, each up to a low ceiling
InitCrawl ==
    /\ DownloaderOff
    /\ CliOff
    /\ cpc = "start"
    /\ \E w \in 1..MaxWidth, mv \in 1..2, md \in 1..2 :
          cfg = [max_concurrent_requests |-> w, max_consecutive_failures |-> MaxFailures,
                 start_id |-> [s \in Sweeps |-> 1],
                 max_id |-> [s \in Sweeps |-> IF s = "videos" THEN Some(mv) ELSE Some(md)]]
    /\ jsonl = [s \in Sweeps |-> <<>>]
    /\ sw = [s \in Sweeps |-> NoSweep]

SpecCrawl == InitCrawl /\ [][NextCrawl]_vars

----------------------------------------------------------------------------
(* Properties of the sweeps *)

V == sw["videos"]
D == sw["datasets"]
W == cfg.max_concurrent_requests
K == cfg.max_consecutive_failures

\* results counted so far by a sweep
Counted(t) == t.stats.success + t.stats.empty + t.stats.failed
\* the IDs whose result has been counted, and those among them that gave
\* no record (empty or failed)
CountedIds(t) == t.start_id..(t.start_id + Counted(t) - 1)
Misses(t) == CountedIds(t) \ t.hits
\* the K IDs up to e have each produced an empty or failed result
FailedRun(t, e) == K >= 1 /\ e - K + 1 >= t.start_id /\ (e - K + 1)..e \subseteq Misses(t)
RequestedIds(t) == {t.requested[k] : k \in 1..Len(t.requested)}
InFlight(t) == Cardinality({k \in 1..Len(t.tasks) : t.tasks[k] = "inflight"})

\* C15 as stated: once K consecutive IDs have each produced an empty or
\* failed result, no ID above the K-th of them is ever requested and no
\* record of a higher ID is appended.
C15_StopsAtKthFailure ==
    \A e \in 1..MaxId :
        FailedRun(V, e) =>
            /\ \A id \in RequestedIds(V) : id <= e
            /\ \A id \in V.hits : id <= e

\* C16 as stated: after each processed result consecutive_failures is the
\* number of non-success results since the most recent success (or the
\* start), and once it has reached the threshold the sweep has stopped: no
\* further result is counted or appended and no further ID requested.
C16_CounterStopsSweep ==
    /\ [](V.pc # "off" =>
            V.consecutive_failures =
                Cardinality({id \in Misses(V) : \A h \in V.hits : h < id}))
    /\ [][(K >= 1 /\ V.pc # "off" /\ V.consecutive_failures >= K) =>
            (/\ V'.stats = V.stats
             /\ V'.requested = V.requested
             /\ jsonl'["videos"] = jsonl["videos"])]_vars

\* C17: with a ceiling M, a sweep requests the IDs from its start upwards
\* in order, none above M; a batch begins only at or below M and ends at M
\* at the latest; a sweep that stopped at the ceiling has requested every
\* ID from its start through M and its cursor is above M; a sweep that
\* starts above M requests nothing and stops at once.
C17_CeilingRespected ==
    \A s \in Sweeps :
        (sw[s].pc # "off" /\ IsSome(cfg.max_id[s])) =>
            LET t == sw[s]
                M == Val(cfg.max_id[s])
            IN  /\ \A k \in 1..Len(t.requested) :
                      /\ t.requested[k] = t.start_id + k - 1
                      /\ t.requested[k] <= M
                /\ t.pc = "gather" =>
                      /\ t.current_id <= M
                      /\ t.current_id + t.batch_size - 1 <= M
                      /\ t.batch_size >= 1
                /\ t.why = "ceiling" =>
                      /\ t.current_id > M
                      /\ t.consecutive_failures < K
                      /\ RequestedIds(t) = t.start_id..M
                /\ t.why = "threshold" => t.consecutive_failures >= K
                /\ t.start_id > M =>
                      /\ t.requested = <<>>
                      /\ t.pc \in {"loop", "stopped"}

\* the last batch was narrowed to end at the ceiling
C17_Witness ==
    /\ V.why = "ceiling"
    /\ W = 2
    /\ V.batch_size = 1
    /\ V.start_id = 1
    /\ Len(V.requested) = Val(cfg.max_id["videos"])
    /\ D.why = "ceiling"
    /\ D.requested = <<>>

\* the ids of the records of a log, in the order of its lines
RECURSIVE RecordIds(_)
RecordIds(lines) ==
    IF lines = <<>> THEN <<>>
    ELSE IF Head(lines).kind = "record"
    THEN <<Head(lines).id>> \o RecordIds(Tail(lines))
    ELSE RecordIds(Tail(lines))

StrictlyAscending(q) == \A i \in 1..Len(q) : \A j \in 1..Len(q) : i < j => q[i] < q[j]

\* C18: while a fetch of a batch is still to start or in flight, every ID
\* below the batch has been requested and its result counted, and no result
\* of the batch has been counted; what has been requested is exactly the
\* IDs below the batch and the started fetches of the batch; records are
\* appended only for IDs whose fetch gave a record, and the ids in the log
\* are strictly ascending.
C18_BatchesInTurn ==
    \A s \in Sweeps :
        sw[s].pc # "off" =>
            LET t == sw[s]
                ids == RecordIds(jsonl[s])
            IN  /\ (t.pc = "gather" /\ ~GatherReturned(t.tasks)) =>
                      /\ t.processed = 0
                      /\ CountedIds(t) = t.start_id..(t.current_id - 1)
                /\ t.pc = "gather" =>
                      /\ CountedIds(t) = t.start_id..(t.current_id + t.processed - 1)
                      /\ RequestedIds(t) =
                            t.start_id..(t.current_id - 1)
                            \cup {t.current_id + k - 1 : k \in
                                    {j \in 1..Len(t.tasks) : t.tasks[j] # "created"}}
                /\ t.pc \in {"loop", "stopped"} =>
                      /\ RequestedIds(t) = t.start_id..(t.current_id - 1)
                      /\ CountedIds(t) = RequestedIds(t)
                /\ StrictlyAscending(ids)
                /\ \A k \in 1..Len(ids) : ids[k] >= t.start_id => ids[k] \in t.hits

\* the second batch is in flight and the log holds a record of the first
C18_Witness ==
    /\ V.pc = "gather"
    /\ InFlight(V) = 2
    /\ V.current_id = V.start_id + 2
    /\ V.hits = {V.start_id, V.start_id + 1}
    /\ Len(RecordIds(jsonl["videos"])) >= 2

\* C19 as stated: at every moment of a crawl the number of detail-page
\* fetches in flight is at most max_concurrent_requests.
C19_InFlightAtMostWidth ==
    InFlight(V) + InFlight(D) <= W

RECURSIVE LastRecordId(_)
\* the id of the last record of a log, 0 for a log without record
LastRecordId(lines) ==
    IF lines = <<>> THEN 0
    ELSE IF lines[Len(lines)].kind = "record" THEN lines[Len(lines)].id
    ELSE LastRecordId(SubSeq(lines, 1, Len(lines) - 1))

BetweenBatches(t) == t.pc \in {"loop", "stopped"}

\* C21 (as stated): between batches, 'failed' counts the fetches that ended
\* in an exception of the request (a timeout, a transport error) or in
\* anything else that left the fetch, and 'empty' the fetches the server
\* answered without a usable page
C21_NetworkErrorsCountAsFailed ==
    BetweenBatches(V) =>
        /\ V.stats.failed = V.ended["network"] + V.ended["escaped"]
        /\ V.stats.empty = V.ended["answered_empty"]

\* C22 (as stated): when the sweep is over, its log has grown by as many
\* lines as fetches were counted as successes
C22_OneLinePerSuccess ==
    (V.pc = "stopped") => (Len(jsonl["videos"]) = V.lines_before + V.stats.success)

\* the IDs from a up to b - 1, in order
Span(a, b) == [k \in 1..(b - a) |-> a + k - 1]

\* C38: at every batch boundary of a sweep, success + empty + failed equals
\* current_id minus the start ID, and what has been requested is each ID of
\* [start, current_id) once, in order: none skipped, none twice.
C38_CountsMatchCursor ==
    \A s \in Sweeps :
        (sw[s].pc # "off" /\ BetweenBatches(sw[s])) =>
            /\ sw[s].current_id >= sw[s].start_id
            /\ Counted(sw[s]) = sw[s].current_id - sw[s].start_id
            /\ sw[s].requested = Span(sw[s].start_id, sw[s].current_id)

\* two batches done, with a record, an empty and a failed result among them
C38_Witness ==
    /\ V.pc = "loop"
    /\ V.current_id - V.start_id >= 3
    /\ V.stats.success >= 1
    /\ V.stats.empty >= 1
    /\ V.stats.failed >= 1

\* the IDs whose fetch has given a record: those counted, and those of the
\* running batch whose task has returned one
Yielded(t) ==
    t.hits \cup (IF t.pc = "gather"
                 THEN {t.current_id + k - 1 : k \in {j \in 1..Len(t.tasks) : t.tasks[j] = "dict"}}
                 ELSE {})
\* the requested IDs above the last one that yielded a record (all of them
\* when none did)
AboveLastYield(t) == {id \in RequestedIds(t) : \A h \in Yielded(t) : h < id}

C37_RequestsBounded ==
    \A s \in Sweeps :
        sw[s].pc # "off" =>
            /\ K >= 1 => Cardinality(AboveLastYield(sw[s])) <= K + W - 1
            /\ K <= 0 => sw[s].requested = <<>>

\* C37: where only finitely many IDs yield a record, a sweep with threshold
\* K >= 1 and width W >= 1 stops, and at no time has it requested more than
\* K + W - 1 IDs above the last ID that yielded a record (above its start
\* when none did); with K <= 0 it requests no ID at all (and stops).
C37_SweepTerminates ==
    /\ []C37_RequestsBounded
    /\ <>[](V.pc = "stopped")

\* a sweep stopped on the threshold after a record, having requested
\* K + W - 1 IDs above it
C37_Witness ==
    /\ V.why = "threshold"
    /\ K = 2
    /\ W = 2
    /\ V.hits # {}
    /\ Cardinality(AboveLastYield(V)) = K + W - 1

OtherSweep(s) == CHOOSE o \in Sweeps : o # s

\* a step of sweep s: its cursor, counter, statistics, tasks or log change
StepOf(s) == sw'[s] # sw[s] \/ jsonl'[s] # jsonl[s]

\* a sweep stops for a reason found in its own state
OwnReason(s) ==
    /\ sw[s].why = "threshold" => sw[s].consecutive_failures >= K
    /\ sw[s].why = "ceiling" =>
          (IsSome(cfg.max_id[s]) /\ sw[s].current_id > Val(cfg.max_id[s]))
    /\ sw[s].pc = "stopped" => sw[s].why \in {"threshold", "ceiling"}

\* C33: the two sweeps are independent sibling tasks.  A step of one sweep
\* leaves the other's cursor, counter, statistics and log as they are,
\* under every interleaving; a sweep stops only for a reason of its own,
\* and a sweep at the top of its loop can go on whatever the other has
\* done (stopped or not); the crawl is complete only when both sweeps have
\* stopped.
C33_SweepsIndependent ==
    /\ [](\A s \in Sweeps :
            /\ OwnReason(s)
            /\ (cpc = "sweeping" /\ sw[s].pc = "loop") => ENABLED CheckLimits(s))
    /\ [](cpc = "complete" => \A s \in Sweeps : sw[s].pc = "stopped")
    /\ [][\A s \in Sweeps :
            (cpc = "sweeping" /\ StepOf(s)) =>
                (/\ sw'[OtherSweep(s)] = sw[OtherSweep(s)]
                 /\ jsonl'[OtherSweep(s)] = jsonl[OtherSweep(s)]
                 /\ cpc' = cpc)]_vars

\* the video sweep has stopped at its ceiling and the dataset sweep, still
\* running, has a later batch in flight
C33_Witness ==
    /\ cpc = "sweeping"
    /\ V.pc = "stopped"
    /\ V.stats.success = 1
    /\ D.pc = "gather"
    /\ D.current_id = 2
    /\ InFlight(D) = 1

\* C36: on logs written only by the crawler, after any number of runs
\* (ended on the threshold or the ceiling, or interrupted between batches)
\* the ids of the records of a log are strictly increasing from the first
\* line to the last: no id occurs twice.
C36_IdsIncreaseAcrossRuns ==
    \A s \in Sweeps :
        \A i \in 1..Len(jsonl[s]) : \A j \in 1..Len(jsonl[s]) :
            (i < j /\ jsonl[s][i].kind = "record" /\ jsonl[s][j].kind = "record")
                => jsonl[s][i].id < jsonl[s][j].id

\* a later run has appended records to a log that earlier runs had left
\* with records
C36_Witness ==
    /\ V.lines_before >= 1
    /\ Len(jsonl["videos"]) >= V.lines_before + 2
    /\ V.past # {}
    /\ V.pc = "stopped"

\* an ID whose fetch gave no record in an earlier run, with a higher ID
\* recorded in the log
MissedBelowRecord(s, id) ==
    /\ id \in sw[s].past
    /\ \E k \in 1..Len(jsonl[s]) : jsonl[s][k].kind = "record" /\ jsonl[s][k].id > id

\* C39: an ID whose fetch ended empty or failed in a run is not requested
\* by a later run on the same log once a higher ID has been recorded: every
\* request a run issues is for an ID that is no such ID.
C39_MissesNotRetried ==
    [][\A s \in Sweeps :
          (Len(sw'[s].requested) > Len(sw[s].requested)) =>
              ~MissedBelowRecord(s, sw'[s].requested[Len(sw'[s].requested)])]_vars

\* a later run is requesting IDs while an ID that gave no record in an
\* earlier run lies below a recorded one
C39_Witness ==
    /\ V.requested # <<>>
    /\ V.lines_before >= 1
    /\ \E id \in 1..MaxId :
          /\ MissedBelowRecord("videos", id)
          /\ \E k \in 1..V.lines_before : jsonl["videos"][k].id > id

----------------------------------------------------------------------------
(* utils.py: the functions the two commands share.  Each is applied once   *)
(* to an input drawn in the initial state.                                 *)

\* str(response.url) of the login POST after its redirects, cut into pieces;
\* the piece "?" begins the query
MembersUrl == <<"https://www.cdvl.org", "/", "members-section", "/">>
LoginUrl == <<"https://www.cdvl.org", "/", "login">>
LoginUrlWithReturn ==
    <<"https://www.cdvl.org", "/", "login", "?", "ReturnUrl=%2F", "members-section", "%2F">>
FinalUrls == {MembersUrl, LoginUrl, LoginUrlWithReturn}

\* Python's `needle in text`, for a needle that is one piece of the text
Contains(text, needle) == \E k \in 1..Len(text) : text[k] = needle

\* What the site does to one login: the GET of the login page (an exception,
\* or a status and a page with or without the two hidden inputs) and the
\* POST of the form (an exception, or the status and URL of the last
\* response and whether the identity cookie is in the jar afterwards)
LoginServers ==
    [get_err : BOOLEAN, get_status : {200, 500}, token : BOOLEAN, ufprt : BOOLEAN,
     post_err : BOOLEAN, post_status : {200, 401}, final_url : FinalUrls,
     cookie : BOOLEAN]

LoginInputs ==
    [fn : {"login_to_cdvl"}, username : {"", "user"}, password : {"", "secret"},
     server : LoginServers]

\* the return value of login_to_cdvl; history: the requests it sent and
\* whether the form carried the ufprt field
LoginAnswer(ok, gets, posts, ufprt_sent) ==
    [ok |-> ok, gets |-> gets, posts |-> posts, ufprt_sent |-> ufprt_sent]

\* utils.py, login_to_cdvl
LoginToCdvl(username, password, server) ==
    IF username = "" \/ password = "" THEN LoginAnswer(FALSE, 0, 0, FALSE)
    ELSE IF server.get_err THEN LoginAnswer(FALSE, 1, 0, FALSE)
    ELSE IF server.get_status # 200 THEN LoginAnswer(FALSE, 1, 0, FALSE)
    ELSE IF ~server.token THEN LoginAnswer(FALSE, 1, 0, FALSE)
    ELSE IF server.post_err THEN LoginAnswer(FALSE, 1, 1, server.ufprt)
    ELSE IF server.post_status = 200 /\ Contains(server.final_url, "members-section")
    THEN LoginAnswer(server.cookie, 1, 1, server.ufprt)
    ELSE LoginAnswer(FALSE, 1, 1, server.ufprt)

\* str.strip()
Strip(text) == RStrip(LStrip(text))

\* A credential in the config file and in the environment: absent, the empty
\* string or a value.  What the user types at a prompt: a line (blank,
\* padded, empty) or the end of the input (None)
ConfigValues == {None, Some(<<>>), Some(<<"c">>)}
EnvValues == {None, Some(<<>>), Some(<<"e">>)}
TypedValues == {None, Some(<<>>), Some(<<" ">>), Some(<<" ", "t">>)}

CredentialInputs ==
    [fn : {"get_credentials"},
     config : [username : ConfigValues, password : ConfigValues],
     environ : [username : EnvValues, password : EnvValues],
     typed : [username : TypedValues, password : TypedValues]]

\* dict.get(key, "") and os.environ.get(name, "")
GetOrEmpty(v) == IF IsSome(v) THEN Val(v) ELSE <<>>

\* the mutant: the environment is looked at first
FromConfigOrEnviron_EnvironFirst(config_value, environ_value) ==
    IF GetOrEmpty(environ_value) # <<>> THEN GetOrEmpty(environ_value)
    ELSE GetOrEmpty(config_value)

\* lines 202-214: the config value, or the variable of the environment when
\* the config value is empty
FromConfigOrEnviron(config_value, environ_value) ==
    IF GetOrEmpty(config_value) # <<>> THEN GetOrEmpty(config_value)
    ELSE GetOrEmpty(environ_value)

\* what get_credentials gave: the pair returned or the exception raised;
\* history: the prompts shown
CredentialsAnswer(value, raised, prompted) ==
    [value |-> value, raised |-> raised, prompted |-> prompted]

\* utils.py, get_credentials
GetCredentials(config, environ, typed) ==
    LET u1 == FromConfigOrEnviron(config.username, environ.username)
        p1 == FromConfigOrEnviron(config.password, environ.password)
        ask_u == u1 = <<>>
        ask_p == p1 = <<>>
        shown_u == IF ask_u THEN <<"username">> ELSE <<>>
        shown == IF ask_p THEN Append(shown_u, "password") ELSE shown_u
    IN  IF ask_u /\ typed.username = None
        THEN CredentialsAnswer(None, Some("EOFError"), shown_u)
        ELSE IF ask_p /\ typed.password = None
        THEN CredentialsAnswer(None, Some("EOFError"), shown)
        ELSE LET username == IF ask_u THEN Strip(Val(typed.username)) ELSE u1
                 password == IF ask_p THEN Strip(Val(typed.password)) ELSE p1
             IN  IF username = <<>> \/ password = <<>>
                 THEN CredentialsAnswer(None, Some("ValueError"), shown)
                 ELSE CredentialsAnswer(Some(<<username, password>>), None, shown)

\* A configuration: key -> value or None for a key that is not there.  A
\* value is a group (a JSON object: entry -> string, None for an entry that
\* is not there) or anything else (a string here).
ConfigKeys == {"headers", "max_concurrent_requests", "username"}
EntryKeys == {"User-Agent", "X-Custom"}

NoEntries == [e \in EntryKeys |-> None]
Plain(v) == [group |-> FALSE, plain |-> v, entries |-> NoEntries]
Group(entries) == [group |-> TRUE, plain |-> "", entries |-> entries]

\* get_default_config, cut down to one group, one number and the keys the
\* defaults do not hold
DefaultConfig ==
    [k \in ConfigKeys |->
        IF k = "headers"
        THEN Some(Group([e \in EntryKeys |->
                            IF e = "User-Agent" THEN Some("Mozilla/5.0") ELSE None]))
        ELSE IF k = "max_concurrent_requests" THEN Some(Plain("5"))
        ELSE None]

\* what a config file may say about one key
FileValues ==
    {None, Some(Plain("file"))}
        \cup {Some(Group(g)) : g \in [EntryKeys -> {None, Some("file")}]}

\* the path given (None, the empty string, a path) and what is at the path:
\* nothing, text that is no JSON, or a JSON object
LoadConfigInputs ==
    [fn : {"load_config"},
     config_path : {None, Some(<<>>), Some(<<"config.json">>)},
     file : {"missing", "invalid", "object"},
     user_config : [ConfigKeys -> FileValues]]

\* dict.update
DictUpdate(entries, other) ==
    [e \in EntryKeys |-> IF IsSome(other[e]) THEN other[e] ELSE entries[e]]

\* the mutant: the file's value replaces the default whatever the two are
MergeKey_Replacing(default_value, file_value) == Some(file_value)

\* lines 165-173: one round of the loop over the file's items
MergeKey(default_value, file_value) ==
    IF IsSome(default_value) /\ Val(default_value).group /\ file_value.group
    THEN Some(Group(DictUpdate(Val(default_value).entries, file_value.entries)))
    ELSE Some(file_value)

\* what load_config gave: the configuration returned or the exception raised
ConfigAnswer(config, raised) == [config |-> config, raised |-> raised]

\* utils.py, load_config
LoadConfig(config_path, file, user_config) ==
    IF config_path = None \/ Val(config_path) = <<>>
    THEN ConfigAnswer(Some(DefaultConfig), None)
    ELSE IF file = "missing" THEN ConfigAnswer(None, Some("FileNotFoundError"))
    ELSE IF file = "invalid" THEN ConfigAnswer(None, Some("JSONDecodeError"))
    ELSE ConfigAnswer(
            Some([k \in ConfigKeys |->
                    IF IsSome(user_config[k])
                    THEN MergeKey(DefaultConfig[k], Val(user_config[k]))
                    ELSE DefaultConfig[k]]),
            None)

UtilInputs == LoginInputs \cup CredentialInputs \cup LoadConfigInputs

InitUtils ==
    /\ fs = [p \in AllPaths |-> Absent]
    /\ pc = "pure"
    /\ args = NoArgs
    /\ loc = NoLocals
    /\ resp = NoResponse
    /\ result = None
    /\ hist = NoHistory
    /\ pin \in {Some(i) : i \in UtilInputs}
    /\ pout = None
    /\ CrawlerOff
    /\ CliOff

\* the function named is applied, once, to the input
Applies(fn) ==
    /\ pc = "pure"
    /\ pout = None
    /\ IsSome(pin)
    /\ Val(pin).fn = fn

ApplyLogin ==
    /\ Applies("login_to_cdvl")
    /\ pout' = Some(LoginToCdvl(Val(pin).username, Val(pin).password, Val(pin).server))
    /\ UNCHANGED <<fs, pc, args, loc, resp, result, hist, pin, cpc, cfg, jsonl, sw, cli>>

ApplyCredentials ==
    /\ Applies("get_credentials")
    /\ pout' = Some(GetCredentials(Val(pin).config, Val(pin).environ, Val(pin).typed))
    /\ UNCHANGED <<fs, pc, args, loc, resp, result, hist, pin, cpc, cfg, jsonl, sw, cli>>

ApplyLoadConfig ==
    /\ Applies("load_config")
    /\ pout' = Some(LoadConfig(Val(pin).config_path, Val(pin).file, Val(pin).user_config))
    /\ UNCHANGED <<fs, pc, args, loc, resp, result, hist, pin, cpc, cfg, jsonl, sw, cli>>

NextUtils ==
    \/ ApplyLogin
    \/ ApplyCredentials
    \/ ApplyLoadConfig

SpecUtils == InitUtils /\ [][NextUtils]_vars

\* the function fn has been applied
Applied(fn) == IsSome(pin) /\ Val(pin).fn = fn /\ IsSome(pout)

\* the path of a URL: its pieces before the query
UrlPath(url) ==
    IF Contains(url, "?")
    THEN SubSeq(url, 1, (CHOOSE k \in 1..Len(url) :
                            url[k] = "?" /\ \A j \in 1..(k - 1) : url[j] # "?") - 1)
    ELSE url

OnMembersPath(url) == Contains(UrlPath(url), "members-section")

\* C23 (as stated): login_to_cdvl returns success exactly when the GET of
\* the login page returned 200, the CSRF token field was found, the POST
\* ended after its redirects with status 200 on the members path and the
\* identity cookie is in the cookie store; a missing fingerprint token alone
\* never makes it fail; a call sends at most one GET and at most one POST.
C23_LoginSucceedsIff ==
    Applied("login_to_cdvl") =>
        LET o == Val(pin).server
            r == Val(pout)
        IN  /\ r.ok <=> (/\ r.gets = 1 /\ ~o.get_err /\ o.get_status = 200
                         /\ o.token
                         /\ r.posts = 1 /\ ~o.post_err /\ o.post_status = 200
                         /\ OnMembersPath(o.final_url)
                         /\ o.cookie)
            /\ r.gets <= 1
            /\ r.posts <= 1

\* a credential's source holds a value: it is there and not the empty string
Given(v) == IsSome(v) /\ Val(v) # <<>>

\* what a credential must resolve to: the config value, else the variable of
\* the environment, else the line typed at the prompt (without the blanks
\* around it); the empty string when no source holds one
Resolved(config_value, environ_value, typed_value) ==
    IF Given(config_value) THEN Val(config_value)
    ELSE IF Given(environ_value) THEN Val(environ_value)
    ELSE IF IsSome(typed_value) THEN Strip(Val(typed_value))
    ELSE <<>>

\* C28: username and password are each taken from the config value, else from
\* the environment, else from the prompt; a non-empty config value wins over
\* the environment, the prompt is shown only when config and environment are
\* both empty; when either is still empty after all sources the call raises
\* instead of returning credentials.
C28_CredentialPriority ==
    Applied("get_credentials") =>
        LET i == Val(pin)
            r == Val(pout)
            u == Resolved(i.config.username, i.environ.username, i.typed.username)
            p == Resolved(i.config.password, i.environ.password, i.typed.password)
        IN  /\ (u # <<>> /\ p # <<>>) => (r.value = Some(<<u, p>>) /\ r.raised = None)
            /\ (u = <<>> \/ p = <<>>) => (r.value = None /\ IsSome(r.raised))
            /\ Contains(r.prompted, "username") =>
                  (~Given(i.config.username) /\ ~Given(i.environ.username))
            /\ Contains(r.prompted, "password") =>
                  (~Given(i.config.password) /\ ~Given(i.environ.password))

\* both sources of the username are set and the config wins; the password
\* is typed at the prompt
C28_Witness ==
    /\ Applied("get_credentials")
    /\ Val(pin).config.username = Some(<<"c">>)
    /\ Val(pin).environ.username = Some(<<"e">>)
    /\ Val(pin).config.password = None
    /\ Val(pin).environ.password = Some(<<>>)
    /\ Val(pout).value = Some(<<(<<"c">>), (<<"t">>)>>)
    /\ Val(pout).prompted = <<"password">>

\* a config file was given, found and read as a JSON object
FileRead(i) ==
    /\ i.config_path # None
    /\ Val(i.config_path) # <<>>
    /\ i.file = "object"

\* C29: the values of the config file merge with the defaults: where default
\* and file value are both groups the result holds every entry of the file
\* and every default entry the file does not set; any other file value
\* replaces the default; a key absent from the file keeps its default; with
\* no config path the defaults are returned unchanged.
C29_ConfigMergesWithDefaults ==
    Applied("load_config") =>
        LET i == Val(pin)
            r == Val(pout)
        IN  /\ i.config_path = None => r = ConfigAnswer(Some(DefaultConfig), None)
            /\ FileRead(i) =>
                  /\ IsSome(r.config)
                  /\ \A k \in ConfigKeys :
                        LET d == DefaultConfig[k]
                            f == i.user_config[k]
                            c == Val(r.config)[k]
                        IN  /\ f = None => c = d
                            /\ (IsSome(f) /\ ~(IsSome(d) /\ Val(d).group /\ Val(f).group)) =>
                                  c = f
                            /\ (IsSome(f) /\ IsSome(d) /\ Val(d).group /\ Val(f).group) =>
                                  /\ IsSome(c)
                                  /\ Val(c).group
                                  /\ \A e \in EntryKeys :
                                        Val(c).entries[e] =
                                            IF IsSome(Val(f).entries[e])
                                            THEN Val(f).entries[e]
                                            ELSE Val(d).entries[e]

\* the file adds a header: the result has it and the default User-Agent
C29_Witness ==
    /\ Applied("load_config")
    /\ FileRead(Val(pin))
    /\ Val(pin).user_config["headers"] =
          Some(Group([e \in EntryKeys |-> IF e = "X-Custom" THEN Some("file") ELSE None]))
    /\ IsSome(Val(pout).config)
    /\ Val(Val(Val(pout).config)["headers"]).entries["X-Custom"] = Some("file")
    /\ Val(Val(Val(pout).config)["headers"]).entries["User-Agent"] = Some("Mozilla/5.0")

----------------------------------------------------------------------------
(* exporter.py: CDVLExporter.  A record is a JSON object: the sequence of   *)
(* its (key, value) pairs in the order of the line; a value is a string,    *)
(* written as the sequence of its pieces, or None for null.                 *)

MaxRecords == 2   \* most lines in the input file
MaxFields == 2    \* most keys in one record

\* lines 77-89
preferred_order ==
    <<"id", "url", "title", "content_type", "filename", "file_size",
      "paragraphs", "links", "media", "tables_count", "extracted_at">>

\* the keys the records are made of: two of the preferred ones and two others
FieldNames == {"title", "id", "zeta", "alpha"}

NoRepeat(q) == \A a \in 1..Len(q) : \A b \in 1..Len(q) : a # b => q[a] # q[b]

\* the value the records give to a key: null for zeta, the key's name else
ValueOf(k) == IF k = "zeta" THEN None ELSE Some(<<k>>)

ExportRecords ==
    {[n \in 1..Len(ks) |-> <<ks[n], ValueOf(ks[n])>>] :
        ks \in {q \in SeqsUpTo(FieldNames, MaxFields) : NoRepeat(q)}}

\* a line of the input: a record, or None for a line that is no JSON
ExportLines == {None} \cup {Some(r) : r \in ExportRecords}

ExportInputs ==
    [fn : {"export"},
     columns : {None, Some(<<>>), Some(<<"title", "id">>)},
     lines : SeqsUpTo(ExportLines, MaxRecords) \ {<<>>}]

\* record.keys() and record.get(col)
RecordKeys(record) == [n \in 1..Len(record) |-> record[n][1]]
RecordGet(record, col) ==
    IF \E n \in 1..Len(record) : record[n][1] = col
    THEN (CHOOSE pair \in {record[n] : n \in 1..Len(record)} : pair[1] = col)[2]
    ELSE None

\* lines 44-51 of _flatten_value
FlattenValue(value) == IF value = None THEN <<>> ELSE Val(value)

\* columns_seen[k] = None on a dict that keeps the order of insertion
RECURSIVE SeeAll(_, _)
SeeAll(columns_seen, keys) ==
    IF keys = <<>> THEN columns_seen
    ELSE SeeAll(IF Contains(columns_seen, Head(keys)) THEN columns_seen
                ELSE Append(columns_seen, Head(keys)),
                Tail(keys))

\* lines 95-98
RECURSIVE SeeRecords(_, _)
SeeRecords(columns_seen, records) ==
    IF records = <<>> THEN columns_seen
    ELSE SeeRecords(SeeAll(columns_seen, RecordKeys(Head(records))), Tail(records))

\* lines 101-103
AllKeys(records) ==
    UNION {{records[n][k][1] : k \in 1..Len(records[n])} : n \in 1..Len(records)}

\* the mutant: the columns no record has are kept
KeepOccurring_KeepAll(columns_seen, all_keys) == columns_seen

\* line 105
KeepOccurring(columns_seen, all_keys) ==
    SelectSeq(columns_seen, LAMBDA col : col \in all_keys)

\* _get_all_columns
GetAllColumns(records) ==
    KeepOccurring(SeeRecords(SeeAll(<<>>, preferred_order), records), AllKeys(records))

\* what export wrote (None when it returned False before writing)
ExportAnswer(ok, csv) == [ok |-> ok, csv |-> csv]

\* export, lines 119-163, on an input file that is there and an output file
\* that can be written
Export(columns, lines) ==
    LET records == [n \in 1..Len(SelectSeq(lines, IsSome)) |->
                        Val(SelectSeq(lines, IsSome)[n])]
        cols == IF IsSome(columns) /\ Val(columns) # <<>>
                THEN Val(columns) ELSE GetAllColumns(records)
    IN  IF records = <<>> THEN ExportAnswer(FALSE, None)
        ELSE ExportAnswer(TRUE,
                Some([header |-> cols,
                      rows |-> [n \in 1..Len(records) |->
                                  [c \in 1..Len(cols) |->
                                      FlattenValue(RecordGet(records[n], cols[c]))]]]))

InitExport ==
    /\ fs = [p \in AllPaths |-> Absent]
    /\ pc = "pure"
    /\ args = NoArgs
    /\ loc = NoLocals
    /\ resp = NoResponse
    /\ result = None
    /\ hist = NoHistory
    /\ pin \in {Some(i) : i \in ExportInputs}
    /\ pout = None
    /\ CrawlerOff
    /\ CliOff

ApplyExport ==
    /\ Applies("export")
    /\ pout' = Some(Export(Val(pin).columns, Val(pin).lines))
    /\ UNCHANGED <<fs, pc, args, loc, resp, result, hist, pin, cpc, cfg, jsonl, sw, cli>>

NextExport == ApplyExport

SpecExport == InitExport /\ [][NextExport]_vars

\* the records of the input, in the order of the lines
RecordsRead(lines) ==
    [n \in 1..Len(SelectSeq(lines, IsSome)) |-> Val(SelectSeq(lines, IsSome)[n])]

\* every key of every record, in the order the records give them
RECURSIVE KeysInOrder(_)
KeysInOrder(records) ==
    IF records = <<>> THEN <<>>
    ELSE RecordKeys(Head(records)) \o KeysInOrder(Tail(records))

\* where c comes first in q
FirstAt(q, c) == CHOOSE n \in 1..Len(q) : q[n] = c /\ \A m \in 1..(n - 1) : q[m] # c

WellKnown(c) == Contains(preferred_order, c)

\* C30: without an explicit column list the header is the well-known fields
\* that occur in a record, in the preferred order, then every other field in
\* the order of first occurrence, each column once; every row has one cell
\* per column, the empty string where the record lacks the field.
C30_CsvColumns ==
    (Applied("export") /\ Val(pin).columns = None /\ Val(pout).ok) =>
        LET records == RecordsRead(Val(pin).lines)
            met == KeysInOrder(records)
            header == Val(Val(pout).csv).header
            rows == Val(Val(pout).csv).rows
        IN  /\ NoRepeat(header)
            /\ {header[c] : c \in 1..Len(header)} = {met[n] : n \in 1..Len(met)}
            /\ \A a \in 1..Len(header) : \A b \in 1..Len(header) :
                  a < b =>
                      IF WellKnown(header[a])
                      THEN WellKnown(header[b]) =>
                              FirstAt(preferred_order, header[a])
                                  < FirstAt(preferred_order, header[b])
                      ELSE /\ ~WellKnown(header[b])
                           /\ FirstAt(met, header[a]) < FirstAt(met, header[b])
            /\ Len(rows) = Len(records)
            /\ \A n \in 1..Len(rows) :
                  /\ Len(rows[n]) = Len(header)
                  /\ \A c \in 1..Len(header) :
                        rows[n][c] =
                            IF Contains(RecordKeys(records[n]), header[c])
                                  /\ header[c] # "zeta"
                            THEN <<header[c]>>
                            ELSE <<>>

\* {"zeta": null, "title": ...} then {"alpha": ..., "id": ...}: the header
\* is id, title, zeta, alpha and the second row has two empty cells
C30_Witness ==
    /\ Applied("export")
    /\ Val(pin).columns = None
    /\ Len(Val(pin).lines) = 2
    /\ Val(pout).ok
    /\ Val(Val(pout).csv).header = <<"id", "title", "zeta", "alpha">>
    /\ Val(Val(pout).csv).rows[2] = <<(<<"id">>), (<<>>), (<<>>), (<<"alpha">>)>>

----------------------------------------------------------------------------
(* __main__.py: the crawl and download commands, from the license gate to  *)
(* the exit of the process.  get_download_link, download_file and the two  *)
(* sweeps are single steps here; their insides are modelled above.         *)

MaxIds == 2       \* most IDs in one download command
MaxPrompts == 2   \* most answers to the license prompt that are no answer

\* str.lower(), on the letters the answers are typed with
LowerChar(c) ==
    IF c = "Y" THEN "y" ELSE IF c = "E" THEN "e" ELSE IF c = "S" THEN "s"
    ELSE IF c = "N" THEN "n" ELSE IF c = "O" THEN "o" ELSE c
StrLower(text) == [k \in 1..Len(text) |-> LowerChar(text[k])]

\* what the user may type at the license prompt
LicenseLines ==
    {<<"y", "e", "s">>, <<"y">>, <<" ", "Y", "E", "S", " ">>,
     <<"n", "o">>, <<"n">>, <<"N", "o">>,
     <<"o", "k">>, <<>>, <<"y", "e", "s", "!">>}

\* the mutant: whatever is no refusal is taken as acceptance
LicenseVerdict_Lenient(line) ==
    IF StrLower(Strip(line)) \in {<<"n", "o">>, <<"n">>} THEN "rejected" ELSE "accepted"

\* utils.py lines 107-117: one round of the prompt loop
LicenseVerdict(line) ==
    LET response == StrLower(Strip(line))
    IN  IF response \in {<<"y", "e", "s">>, <<"y">>} THEN "accepted"
        ELSE IF response \in {<<"n", "o">>, <<"n">>} THEN "rejected"
        ELSE "again"

\* the pieces of args.video_ids between the commas
IdPieces == {<<"1">>, <<" ", "7">>, <<"0">>, <<"x">>}

\* the state of main() when a command starts.  History: prompts (the lines
\* typed at the license prompt), license (how the gate ended), credentials
\* (how get_credentials ended), login (what _login returned), login_calls
\* (the calls of _login), events (what the command did, in order), resolved and
\* succeeded (the positions of the IDs whose link was found, and of those
\* that were counted as successes), pending (the exit on its way through
\* the finally clause).
CliStart(command, accept_license, dry_run, output, video_ids_arg) ==
    [pc |-> "license", command |-> command, accept_license |-> accept_license,
     dry_run |-> dry_run, output |-> output, video_ids_arg |-> video_ids_arg,
     video_ids |-> <<>>, i |-> 0, success_count |-> 0,
     session |-> "none", pending |-> None, exit_code |-> None,
     prompts |-> <<>>, license |-> "", credentials |-> "", login |-> None,
     login_calls |-> 0,
     events |-> <<>>, resolved |-> {}, succeeded |-> {}]

Event(op, id) == [op |-> op, id |-> id]

\* sys.exit(code), or an exception that nothing catches (code 1), before
\* the try block
Exited(c, code) == [c EXCEPT !.pc = "exited", !.exit_code = Some(code)]

\* Leaving that skips the finally clause
Leaving_Direct(c, code) == Exited(c, code)

\* the same inside the try block: the finally clause runs first
Leaving(c, code) == [c EXCEPT !.pc = "finally", !.pending = Some(code)]

\* after the gate: run_downloader parses the IDs, run_crawler builds the
\* crawler
AfterLicense(command) == IF command = "download" THEN "parse" ELSE "construct"

InitCli ==
    /\ fs = [p \in AllPaths |-> Absent]
    /\ pc = "cli"
    /\ args = NoArgs
    /\ loc = NoLocals
    /\ resp = NoResponse
    /\ result = None
    /\ hist = NoHistory
    /\ pin = None
    /\ pout = None
    /\ CrawlerOff
    /\ \E command \in {"crawl", "download"}, accept_license \in BOOLEAN,
          dry_run \in BOOLEAN, output \in BOOLEAN,
          video_ids_arg \in SeqsUpTo(IdPieces, MaxIds) \ {<<>>} :
          /\ command = "crawl" => (~dry_run /\ ~output /\ video_ids_arg = <<(<<"1">>)>>)
          /\ cli = CliStart(command, accept_license, dry_run, output, video_ids_arg)

\* utils.py lines 99-101: --accept-license, no prompt
LicenseAutoAccept ==
    /\ cli.pc = "license"
    /\ cli.accept_license
    /\ cli' = [cli EXCEPT !.pc = AfterLicense(cli.command), !.license = "accepted"]
    /\ UNCHANGED <<dlVars, crawlVars>>

\* utils.py lines 103-117 and __main__.py lines 243-245, 277-279: one
\* answer at the prompt; None is the end of the input (EOFError)
LicenseAnswer(line) ==
    /\ cli.pc = "license"
    /\ ~cli.accept_license
    /\ LET shown == [cli EXCEPT !.prompts = Append(@, line)]
       IN  IF line = None
           THEN cli' = Exited([shown EXCEPT !.license = "eof"], 1)
           ELSE LET verdict == LicenseVerdict(Val(line))
                IN  IF verdict = "accepted"
                    THEN cli' = [shown EXCEPT !.pc = AfterLicense(cli.command),
                                              !.license = "accepted"]
                    ELSE IF verdict = "rejected"
                    THEN cli' = Exited([shown EXCEPT !.license = "rejected"], 1)
                    ELSE /\ Len(cli.prompts) < MaxPrompts
                         /\ cli' = shown
    /\ UNCHANGED <<dlVars, crawlVars>>

\* __main__.py lines 282-296: the IDs are parsed and checked
ParseIds ==
    /\ cli.pc = "parse"
    /\ LET parsed == [k \in 1..Len(cli.video_ids_arg) |-> ParseInt(cli.video_ids_arg[k])]
       IN  IF \E k \in 1..Len(parsed) : parsed[k] = None
           THEN cli' = Exited(cli, 1)
           ELSE IF \E k \in 1..Len(parsed) : Val(parsed[k]) <= 0
           THEN cli' = Exited(cli, 1)
           ELSE IF cli.output /\ Len(parsed) > 1
           THEN cli' = Exited(cli, 1)
           ELSE cli' = [cli EXCEPT !.pc = "construct",
                                   !.video_ids = [k \in 1..Len(parsed) |-> Val(parsed[k])]]
    /\ UNCHANGED <<dlVars, crawlVars>>

\* __main__.py lines 268-270 and 299-300, crawler.py line 464: the object
\* is built (load_config or mkdir may raise) and the session created
Construct(built) ==
    /\ cli.pc = "construct"
    /\ IF built
       THEN cli' = [cli EXCEPT !.pc = "login", !.session = "open",
                               !.events = Append(@, Event("session", 0))]
       ELSE cli' = Exited(cli, 1)
    /\ UNCHANGED <<dlVars, crawlVars>>

\* the credentials and the sites a command may meet
CliCredentials ==
    {c \in CredentialInputs :
        /\ c.config.username = c.config.password
        /\ c.config.username # Some(<<>>)
        /\ c.environ = [username |-> None, password |-> None]
        /\ c.typed.username = c.typed.password}

CliServers ==
    {o \in LoginServers :
        /\ o.get_status = 200 /\ o.token /\ o.ufprt
        /\ ~o.post_err /\ o.post_status = 200
        /\ o.final_url \in {MembersUrl, LoginUrl}}

\* the requests a login sent
LoginEvents(r) ==
    (IF r.gets = 1 THEN <<Event("login_get", 0)>> ELSE <<>>)
        \o (IF r.posts = 1 THEN <<Event("login_post", 0)>> ELSE <<>>)

\* the mutant: the command goes on whatever _login returned
AfterLogin_GoesOn(command, logged_in) ==
    IF command = "download" THEN "loop" ELSE "touch"

\* crawler.py lines 468-470, __main__.py lines 304-306
AfterLogin(command, logged_in) ==
    IF ~logged_in THEN "finally"
    ELSE IF command = "download" THEN "loop" ELSE "touch"

\* the exit a failed login leads to: sys.exit(1) in run_downloader, a plain
\* return in crawl
LoginFailureCode(command) == IF command = "download" THEN 1 ELSE 0

\* _login (crawler.py lines 82-94, downloader.py lines 48-60) and what the
\* caller does with its result
Login(c, o) ==
    /\ cli.pc = "login"
    /\ LET cred == GetCredentials(c.config, c.environ, c.typed)
           called == [cli EXCEPT !.login_calls = @ + 1,
                                 !.credentials = IF IsSome(cred.raised)
                                                 THEN Val(cred.raised) ELSE "returned"]
       IN  IF cred.raised = Some("EOFError")
           THEN cli' = Leaving(called, 1)
           ELSE LET r == IF IsSome(cred.raised)
                         THEN LoginAnswer(FALSE, 0, 0, FALSE)
                         ELSE LoginToCdvl(Val(cred.value)[1], Val(cred.value)[2], o)
                    next == AfterLogin(cli.command, r.ok)
                IN  cli' = [called EXCEPT
                        !.login = Some(r.ok),
                        !.events = @ \o LoginEvents(r),
                        !.pc = next,
                        !.i = IF next = "loop" THEN 1 ELSE @,
                        !.pending = IF next = "finally"
                                    THEN Some(LoginFailureCode(cli.command)) ELSE @]
    /\ UNCHANGED <<dlVars, crawlVars>>

\* the mutant: a dry run transfers as well
Transfers_Always(dry_run) == TRUE

\* __main__.py lines 320-326
Transfers(dry_run) == ~dry_run

\* __main__.py lines 311-323: the link of the next ID is asked for; without
\* a link the loop goes on, in a dry run the URL is printed
GetDownloadLink(found) ==
    /\ cli.pc = "loop"
    /\ cli.i <= Len(cli.video_ids)
    /\ LET asked == [cli EXCEPT !.events = Append(@, Event("link", cli.video_ids[cli.i]))]
       IN  IF ~found
           THEN cli' = [asked EXCEPT !.i = @ + 1]
           ELSE IF Transfers(cli.dry_run)
           THEN cli' = [asked EXCEPT !.pc = "download", !.resolved = @ \cup {cli.i}]
           ELSE cli' = [asked EXCEPT !.success_count = @ + 1,
                                     !.i = @ + 1,
                                     !.resolved = @ \cup {cli.i},
                                     !.succeeded = @ \cup {cli.i}]
    /\ UNCHANGED <<dlVars, crawlVars>>

\* where download_file puts the file: at --output, or under the name the
\* server gives
CliDestination(output) == IF output THEN <<"out.bin">> ELSE <<"server.bin">>

\* __main__.py lines 326-333: download_file returns True with the file in
\* place, or False with the partial file left behind
DownloadFile(success) ==
    /\ cli.pc = "download"
    /\ cli' = [cli EXCEPT
           !.events = Append(@, Event("download", cli.video_ids[cli.i])),
           !.success_count = IF success THEN @ + 1 ELSE @,
           !.succeeded = IF success THEN @ \cup {cli.i} ELSE @,
           !.i = @ + 1,
           !.pc = "loop"]
    /\ fs' = [fs EXCEPT ![IF success THEN CliDestination(cli.output)
                          ELSE WithSuffix(CliDestination(cli.output), ".partial")] =
                              Data(<<1>>)]
    /\ UNCHANGED <<pc, args, loc, resp, result, hist, pin, pout, crawlVars>>

\* the mutant: one success is enough
ExitCode_AnySuccess(success_count, requested) == IF success_count > 0 THEN 0 ELSE 1

\* line 336
ExitCode(success_count, requested) == IF success_count = requested THEN 0 ELSE 1

\* __main__.py lines 335-336: the loop is over
EndOfLoop ==
    /\ cli.pc = "loop"
    /\ cli.i > Len(cli.video_ids)
    /\ cli' = Leaving(cli, ExitCode(cli.success_count, Len(cli.video_ids)))
    /\ UNCHANGED <<dlVars, crawlVars>>

\* crawler.py lines 473-478: the two logs are touched
TouchLogs ==
    /\ cli.pc = "touch"
    /\ cli' = [cli EXCEPT !.pc = "sweeps", !.events = Append(@, Event("touch", 0))]
    /\ UNCHANGED <<dlVars, crawlVars>>

\* crawler.py lines 482-525: the sweeps run to their end, or an exception
\* leaves one of them
RunSweeps(raised) ==
    /\ cli.pc = "sweeps"
    /\ cli' = Leaving([cli EXCEPT !.events = Append(@, Event("fetch", 0))],
                      IF raised THEN 1 ELSE 0)
    /\ UNCHANGED <<dlVars, crawlVars>>

\* the finally clause (crawler.py lines 527-528, __main__.py lines 338-339),
\* then the exit it had interrupted
CloseSession ==
    /\ cli.pc = "finally"
    /\ cli' = [cli EXCEPT !.pc = "exited", !.session = "closed",
                          !.events = Append(@, Event("close", 0)),
                          !.exit_code = cli.pending]
    /\ UNCHANGED <<dlVars, crawlVars>>

NextCli ==
    \/ LicenseAutoAccept
    \/ \E line \in {None} \cup {Some(l) : l \in LicenseLines} : LicenseAnswer(line)
    \/ ParseIds
    \/ \E built \in BOOLEAN : Construct(built)
    \/ \E c \in CliCredentials, o \in CliServers : Login(c, o)
    \/ \E found \in BOOLEAN : GetDownloadLink(found)
    \/ \E success \in BOOLEAN : DownloadFile(success)
    \/ EndOfLoop
    \/ TouchLogs
    \/ \E raised \in BOOLEAN : RunSweeps(raised)
    \/ CloseSession

SpecCli == InitCli /\ [][NextCli]_vars

\* what the command has done so far
Ops == {cli.events[k].op : k \in 1..Len(cli.events)}
CountOp(op) == Cardinality({k \in 1..Len(cli.events) : cli.events[k].op = op})

NothingWritten == fs = [p \in AllPaths |-> Absent] /\ jsonl = [s \in Sweeps |-> <<>>]

\* C24: without usable credentials the command aborts before any network
\* request; after a failed login it aborts before any detail-page fetch,
\* download-link request or transfer and before a log or a download file is
\* created or changed; the login is tried once.
C24_AbortsWithoutLogin ==
    /\ cli.credentials \in {"ValueError", "EOFError"} =>
          /\ cli.pc \in {"finally", "exited"}
          /\ Ops \cap {"login_get", "login_post", "link", "download", "fetch"} = {}
          /\ NothingWritten
    /\ cli.login = Some(FALSE) =>
          /\ cli.pc \in {"finally", "exited"}
          /\ Ops \cap {"link", "download", "touch", "fetch"} = {}
          /\ NothingWritten
    /\ cli.login_calls <= 1
    /\ CountOp("login_get") <= 1
    /\ CountOp("login_post") <= 1

\* the site turned the login down (both requests went out) and the download
\* command left with nothing but the session opened and closed
C24_Witness ==
    /\ cli.command = "download"
    /\ cli.pc = "exited"
    /\ cli.login = Some(FALSE)
    /\ cli.events = <<Event("session", 0), Event("login_get", 0),
                      Event("login_post", 0), Event("close", 0)>>
    /\ cli.exit_code = Some(1)

Accepting == {Some(<<"y", "e", "s">>), Some(<<"y">>), Some(<<" ", "Y", "E", "S", " ">>)}
Rejecting == {Some(<<"n", "o">>), Some(<<"n">>), Some(<<"N", "o">>)}

\* C25: the license gate comes first in both commands: a session, a login,
\* a fetch or a download happens only after the license was accepted, by
\* yes / y at the prompt or by --accept-license, which shows no prompt; a
\* refusal exits with code 1 with nothing done; an answer that is neither is
\* asked again and settles nothing.
C25_LicenseGate ==
    /\ cli.accept_license => cli.prompts = <<>>
    /\ (cli.events # <<>> \/ cli.session # "none"
            \/ cli.pc \notin {"license", "exited"}) =>
          /\ cli.license = "accepted"
          /\ \/ cli.accept_license
             \/ cli.prompts # <<>> /\ cli.prompts[Len(cli.prompts)] \in Accepting
    /\ cli.license \in {"rejected", "eof"} =>
          /\ cli.pc = "exited"
          /\ cli.exit_code = Some(1)
          /\ cli.session = "none"
          /\ cli.events = <<>>
    /\ \A k \in 1..Len(cli.prompts) :
          LET answer == cli.prompts[k]
          IN  /\ k < Len(cli.prompts) => (IsSome(answer) /\ answer \notin Accepting \cup Rejecting)
              /\ (k = Len(cli.prompts) /\ answer \in Rejecting) => cli.license = "rejected"
              /\ (k = Len(cli.prompts) /\ answer \in Accepting) => cli.license = "accepted"
              /\ (k = Len(cli.prompts) /\ IsSome(answer)
                    /\ answer \notin Accepting \cup Rejecting) =>
                    (cli.license = "" /\ cli.pc = "license")

\* "ok" was asked again, "No" ended the command
C25_Witness ==
    /\ cli.prompts = <<Some(<<"o", "k">>), Some(<<"N", "o">>)>>
    /\ cli.license = "rejected"
    /\ cli.pc = "exited"
    /\ cli.exit_code = Some(1)

\* the IDs whose download link was asked for, in the order of the requests
LinkIds ==
    LET links == SelectSeq(cli.events, LAMBDA e : e.op = "link")
    IN  [k \in 1..Len(links) |-> links[k].id]

InDownloadLoop == cli.command = "download" /\ cli.login = Some(TRUE)

\* C26: once logged in, the download command takes the IDs in the order
\* given and leaves none out, whatever became of the earlier ones; it exits
\* with 0 exactly when every ID succeeded and with 1 otherwise.
C26_EveryIdProcessed ==
    InDownloadLoop =>
        /\ Len(LinkIds) <= Len(cli.video_ids)
        /\ LinkIds = SubSeq(cli.video_ids, 1, Len(LinkIds))
        /\ cli.pc = "exited" =>
              /\ LinkIds = cli.video_ids
              /\ cli.exit_code \in {Some(0), Some(1)}
              /\ (cli.exit_code = Some(0)) <=> (cli.succeeded = 1..Len(cli.video_ids))

\* the transfer of ID 1 failed, ID 7 was downloaded all the same; exit 1
C26_Witness ==
    /\ InDownloadLoop
    /\ cli.pc = "exited"
    /\ cli.video_ids = <<1, 7>>
    /\ cli.succeeded = {2}
    /\ cli.resolved = {1, 2}
    /\ cli.exit_code = Some(1)

\* C27: in a dry run download_file is not called, no file is created or
\* changed, and an ID is a success exactly when its link was resolved.
C27_DryRunTransfersNothing ==
    (cli.command = "download" /\ cli.dry_run) =>
        /\ "download" \notin Ops
        /\ NothingWritten
        /\ cli.succeeded = cli.resolved
        /\ cli.success_count = Cardinality(cli.resolved)

\* a dry run over two IDs: the link of the second was found, not the first
C27_Witness ==
    /\ cli.command = "download"
    /\ cli.dry_run
    /\ cli.pc = "exited"
    /\ LinkIds = <<1, 7>>
    /\ cli.resolved = {2}
    /\ cli.success_count = 1
    /\ cli.exit_code = Some(1)

\* the events that are requests on the HTTP session
RequestOps == {"login_get", "login_post", "link", "download", "fetch"}

\* positions of the events of one kind
EventsAt(op) == {k \in 1..Len(cli.events) : cli.events[k].op = op}

\* C40: the session a crawl or download command has opened is closed on
\* every exit path (login failure, normal completion, an exception in a
\* sweep, the exit at the end of the download loop): a command that has
\* exited has no open session, it has closed the session exactly when it
\* had opened one, every request was issued after the session was opened,
\* and nothing is issued after the close.
C40_SessionClosedOnExit ==
    cli.pc # "off" =>
        /\ cli.pc = "exited" =>
              /\ cli.session # "open"
              /\ Cardinality(EventsAt("close")) = Cardinality(EventsAt("session"))
        /\ Cardinality(EventsAt("session")) <= 1
        /\ (cli.session = "none") = (EventsAt("session") = {})
        /\ (cli.session = "closed") = (EventsAt("close") # {})
        /\ \A k \in 1..Len(cli.events) :
              cli.events[k].op \in RequestOps =>
                  /\ \E o \in EventsAt("session") : o < k
                  /\ \A c \in EventsAt("close") : k < c
        /\ \A c \in EventsAt("close") : c = Len(cli.events)

\* a crawl whose sweep raised has closed its session before the exit
C40_Witness ==
    /\ cli.pc = "exited"
    /\ cli.command = "crawl"
    /\ cli.exit_code = Some(1)
    /\ cli.session = "closed"
    /\ EventsAt("fetch") # {}

----------------------------------------------------------------------------
(* The readers of an output log: CDVLExporter.export, CDVLSiteGenerator's   *)
(* load_videos and generate, and the crawler's last-ID scan, on the same    *)
(* log.  The output file of a reader is what it held before (absent or an   *)
(* older file) or what the reader wrote: the ids of the records, a line     *)
(* that is no object being written as 0.                                    *)

MaxLogLines == 2   \* most lines in the log

LogLines == {Record(1), Record(2), Garbled, Blank, NotAnObject, Undecodable}

OutAbsent == [st |-> "absent", rows |-> <<>>]
OutOld == [st |-> "old", rows |-> <<>>]
Written(rows) == [st |-> "written", rows |-> rows]

\* input: None for a log that does not exist
ReaderInputs ==
    [fn : {"readers"},
     input : {None} \cup {Some(l) : l \in SeqsUpTo(LogLines, MaxLogLines)},
     columns_given : BOOLEAN,
     out0 : {OutAbsent, OutOld}]

\* the read raises UnicodeDecodeError: no OSError (exporter.py line 132),
\* and load_videos has no handler at all
ReadRaises(lines) == \E k \in 1..Len(lines) : lines[k].kind = "undecodable"

\* exporter.py lines 123-131, generator.py lines 39-47: empty lines are
\* passed over, what json.loads rejects is skipped with a warning, what it
\* returns is appended, object or not
Loaded(lines) == SelectSeq(lines, LAMBDA l : l.kind \in {"record", "scalar"})

RowOf(l) == IF l.kind = "record" THEN l.id ELSE 0

\* the rows writerow has written when record.get raises AttributeError on
\* a line that is no object (exporter.py lines 158-160)
RECURSIVE RowsUntilRaise(_)
RowsUntilRaise(records) ==
    IF records = <<>> \/ Head(records).kind = "scalar" THEN <<>>
    ELSE <<RowOf(Head(records))>> \o RowsUntilRaise(Tail(records))

Returned(ret, out) == [ret |-> ret, out |-> out]

\* export (exporter.py lines 107-167) with an output file that can be
\* written
ExportLog(input, columns_given, out0) ==
    IF input = None THEN Returned("False", out0)
    ELSE IF ReadRaises(Val(input)) THEN Returned("raised", out0)
    ELSE LET records == Loaded(Val(input))
             broken == \E n \in 1..Len(records) : records[n].kind = "scalar"
         IN  IF records = <<>> THEN Returned("False", out0)
             ELSE IF ~columns_given
             THEN IF broken
                  THEN Returned("raised", out0)
                  ELSE Returned("True", Written([n \in 1..Len(records) |-> RowOf(records[n])]))
             ELSE IF broken
                  THEN Returned("raised", Written(RowsUntilRaise(records)))
                  ELSE Returned("True", Written([n \in 1..Len(records) |-> RowOf(records[n])]))

\* generate (generator.py lines 1316-1349) over load_videos (lines 31-50)
GenerateSite(input, out0) ==
    IF input = None THEN Returned("False", out0)
    ELSE IF ReadRaises(Val(input)) THEN Returned("raised", out0)
    ELSE LET videos == Loaded(Val(input))
         IN  IF videos = <<>> THEN Returned("False", out0)
             ELSE Returned("True", Written([n \in 1..Len(videos) |-> RowOf(videos[n])]))

\* what the three readers make of a log
Readers(input, columns_given, out0) ==
    [export |-> ExportLog(input, columns_given, out0),
     generate |-> GenerateSite(input, out0),
     last_id |-> IF input = None THEN 0 ELSE GetLastIdFromJsonl(Val(input))]

InitReaders ==
    /\ fs = [p \in AllPaths |-> Absent]
    /\ pc = "pure"
    /\ args = NoArgs
    /\ loc = NoLocals
    /\ resp = NoResponse
    /\ result = None
    /\ hist = NoHistory
    /\ pin \in {Some(i) : i \in ReaderInputs}
    /\ pout = None
    /\ CrawlerOff
    /\ CliOff

ApplyReaders ==
    /\ Applies("readers")
    /\ pout' = Some(Readers(Val(pin).input, Val(pin).columns_given, Val(pin).out0))
    /\ UNCHANGED <<fs, pc, args, loc, resp, result, hist, pin, cpc, cfg, jsonl, sw, cli>>

SpecReaders == InitReaders /\ [][ApplyReaders]_vars

\* the log with its malformed lines removed: the valid records
ValidRecords(lines) == SelectSeq(lines, LAMBDA l : l.kind = "record")

\* C31: malformed lines are skipped on read and are never fatal: on a log
\* that mixes valid records and malformed lines, the CSV export, the site
\* generation and the last-ID scan each give the result they give on the
\* same log with the malformed lines removed.
C31_MalformedLinesSkipped ==
    (Applied("readers") /\ IsSome(Val(pin).input)) =>
        Val(pout) = Readers(Some(ValidRecords(Val(Val(pin).input))),
                            Val(pin).columns_given, Val(pin).out0)

\* C32: the CSV export and the site generation return failure and leave
\* the output file as it was (absent or unchanged) when the log is missing
\* or holds no valid record; they return success only with the output file
\* written, every valid record of the input in it.
C32_FailureWritesNothing ==
    Applied("readers") =>
        \A r \in {Val(pout).export, Val(pout).generate} :
            /\ (Val(pin).input = None \/ ValidRecords(Val(Val(pin).input)) = <<>>) =>
                  (r.ret = "False" /\ r.out = Val(pin).out0)
            /\ r.ret = "True" =>
                  /\ r.out.st = "written"
                  /\ \A l \in {Val(Val(pin).input)[k] : k \in 1..Len(Val(Val(pin).input))} :
                        l.kind = "record" =>
                            \E n \in 1..Len(r.out.rows) : r.out.rows[n] = l.id

====
